---- MODULE Spec2Model ----
(***************************************************************************)
(* Model of the atomic resource-exchange engine of the CSC trading card    *)
(* API: pack balance ledger, code redemption, gift claiming, trade offers, *)
(* pack opening and duplicate trade-in.                                    *)
(*                                                                         *)
(* The store is the relational store the services talk to through the      *)
(* DatabaseAdapter interface.  The default adapter is MySQL (InnoDB);      *)
(* the model keeps its semantics that the services rely on:                *)
(*   - a statement issued with db.query runs in its own transaction;       *)
(*   - statements issued on a connection between beginTransaction and      *)
(*     commit become visible to other connections at commit, all at once;  *)
(*   - UPDATE, DELETE and SELECT ... FOR UPDATE take an exclusive lock on  *)
(*     the rows they touch and read their latest committed version; the    *)
(*     lock is held until commit or rollback; a statement that needs a     *)
(*     locked row waits (its action is not enabled);                       *)
(*   - a plain SELECT takes no lock and reads committed data;              *)
(*   - inserting a row with a FOREIGN KEY takes a shared lock on the       *)
(*     referenced row.                                                     *)
(* The Postgres adapter has the same semantics.  The SQLite adapter hands  *)
(* every request the one shared handle of a synchronous driver, so a       *)
(* service that awaits nothing but the store runs to its end before        *)
(* another request starts.  The adapters differ in QueryResult.rowCount    *)
(* and in how an array parameter is bound.                                 *)
(* A statement is modelled by what its SQL says, on a store that has every *)
(* table the services name; datetime('now') is the clock of the store.     *)
(* Each request is a process; every await on the store is a step.          *)
(***************************************************************************)
EXTENDS Integers, Sequences, FiniteSets, TLC

\* ------------------------------------------------------------------ bounds
MaxBalance == 2
MaxDebitCalls == 3
MaxTime == 2
\* instants in one UTC calendar day
DayLength == 2
MaxPackCount == 2
MaxPackSize == 2
MaxTradeIn == 2
MaxWeight == 2

\* ------------------------------------------------------------------ universe
Users == {"u1", "u2"}
Adapters == {"mysql", "postgres", "sqlite"}
Codes == {"c1", "c2"}
RedeemProcs == {"r1", "r2", "r3"}
Cards == {"k1", "k2", "k3", "k4"}
Trades == {"t1", "t2", "t3"}
\* requests on the trade routes: two that accept, reject or cancel, one that
\* proposes, one that reads
TradeActors == {"x1", "x2"}
TradeCreators == {"cr"}
TradeReaders == {"rd"}
TradeProcs == TradeActors \cup TradeCreators \cup TradeReaders
\* the callers of a trade route: its two parties and a user who is neither
Stranger == "u3"
Callers == Users \cup {Stranger}
NoTrade == "none"
Unread == "unread"
NoProc == "none"
NoUser == "none"
NoCode == "none"
Gifts == {"g1", "g2"}
GiftProcs == {"q1", "q2"}
NoGift == "none"
\* (csc_player_id, season, stat_type, avatar_url) keys of card_snapshots, the
\* names a player can have in the cached list, requests that open a pack
Keys == {"s1", "s2"}
Names == {"n1", "n2"}
PackProcs == {"o1", "o2"}
NoKey == "none"
\* requests that trade in duplicates
TradeInProcs == {"i1", "i2"}
LoginProcs == {"l1", "l2"}
\* expires_at IS NULL
Never == MaxTime + 1

VARIABLES
  adapter,        \* DB_TYPE: which DatabaseAdapter getDatabase() returns
  pack_balance,   \* users.pack_balance, committed value per user
  xlock,          \* row -> process holding the exclusive row lock, or NoProc
  slock,          \* row -> processes holding a shared (foreign key) lock on it
  now,            \* the clock read by new Date() and by the store
  card_owner,     \* owned_cards.discord_user_id, committed; NoUser: no such row
  trade_offers,   \* trade_offers rows, committed: trade -> row
  trade_cards,    \* trade_offer_cards rows, committed: trade -> offered, requested ids
  tp,             \* requests on trades: process -> its position and locals
  pack_codes,     \* pack_codes rows, committed: code -> row
  rp,             \* redeemPackCode calls: process -> its position and locals
  codeCredited,   \* packs committed to balances by redemptions of each code
  codeInit,       \* pack_codes as it was when the run started
  initBalance,    \* balance of each user when the run started
  addedPacks,     \* packs that addPacks calls added, per user
  debitCalls,     \* decrementPackBalance calls made so far, per user
  debitOk,        \* decrementPackBalance calls that returned true, per user
  gifts,          \* gifts rows, committed: gift -> row
  gp,             \* claimGift and claimAllGifts calls: process -> position and locals
  giftStamps,     \* per gift, the committed transactions that set its claimed_at
  card_snapshots, \* card_snapshots rows, committed: key -> name -> number of rows
  snap_at,        \* card_snapshots.created_at of those rows: key -> name -> instant
  player_name,    \* the cached player list: key -> the player's current name
  eligible,       \* the keys of the cached players with stats.gameCount > 0
  opened,         \* owned_cards rows committed by openPack calls, per user
  pp,             \* requests that open a pack: process -> position and locals
  ip,             \* tradeInDuplicates calls: process -> position and locals
  card0,          \* owned_cards.discord_user_id before the first trade-in call
  roll,           \* a rollRarity call: the weight table, the draw and what it returned
  user_rows,      \* users rows, committed: user -> whether the row exists, username
  login_gifts,    \* gifts rows that logins created: user -> name and created_at of each
  lp              \* findOrCreateUser calls: process -> position, locals, connection

varsStore == <<adapter, pack_balance, xlock, slock, now>>
varsTrade == <<card_owner, trade_offers, trade_cards, tp>>
varsDebit == <<initBalance, debitCalls, debitOk, addedPacks>>
varsCode == <<pack_codes, rp, codeCredited, codeInit>>
varsGift == <<gifts, gp, giftStamps>>
varsPack == <<card_snapshots, snap_at, player_name, eligible, opened, pp>>
varsTradeIn == <<ip, card0>>
varsRoll == <<roll>>
varsLogin == <<user_rows, login_gifts, lp>>
vars == <<varsStore, varsDebit, varsCode, varsTrade, varsGift, varsPack, varsTradeIn, varsRoll, varsLogin>>
outsideDebit == <<varsCode, varsTrade, varsGift, varsPack, varsTradeIn, varsRoll, varsLogin>>
outsideCode == <<varsDebit, varsTrade, varsGift, varsPack, varsTradeIn, varsRoll, varsLogin>>
outsideTrade == <<varsDebit, varsCode, varsGift, varsPack, varsTradeIn, varsRoll, varsLogin>>
outsideGift == <<varsDebit, varsCode, varsTrade, varsPack, varsTradeIn, varsRoll, varsLogin>>
outsidePack == <<varsDebit, varsCode, varsTrade, varsGift, varsTradeIn, varsRoll, varsLogin>>
outsideTradeIn == <<varsDebit, varsCode, varsGift, varsPack, trade_offers, tp, varsRoll, varsLogin>>
outsideRoll == <<varsStore, varsDebit, varsCode, varsTrade, varsGift, varsPack, varsTradeIn, varsLogin>>
outsideLogin == <<varsDebit, varsCode, varsTrade, varsGift, varsPack, varsTradeIn, varsRoll>>

UserRow(u) == <<"users", u>>
CodeRow(c) == <<"pack_codes", c>>
CardRow(k) == <<"owned_cards", k>>
TradeRow(t) == <<"trade_offers", t>>
GiftRow(g) == <<"gifts", g>>
SnapRow(k) == <<"card_snapshots", k>>
Rows == {UserRow(u) : u \in Users} \cup {CodeRow(c) : c \in Codes}
        \cup {CardRow(k) : k \in Cards} \cup {TradeRow(t) : t \in Trades}
        \cup {GiftRow(g) : g \in Gifts} \cup {SnapRow(k) : k \in Keys}

\* an exclusive lock can be granted: no other transaction holds the row
CanLock(p, r) == xlock[r] \in {NoProc, p} /\ slock[r] \subseteq {p}
\* a shared lock can be granted: no other transaction holds the row exclusively
CanShare(p, r) == xlock[r] \in {NoProc, p}
\* commit or rollback followed by release: every lock of p is dropped
ReleaseAll(p) == [r \in Rows |-> IF xlock[r] = p THEN NoProc ELSE xlock[r]]
ReleaseShared(p) == [r \in Rows |-> slock[r] \ {p}]

\* ------------------------------------------------------------------ adapters
\* QueryResult.rowCount as each adapter computes it.  nrows is the number of
\* rows a SELECT returned, changes the number of rows a write statement
\* changed.  mysql2 returns a ResultSetHeader (not an array) for a write.
RowCount(a, isSelect, nrows, changes) ==
  CASE a = "mysql"    -> IF isSelect THEN nrows ELSE 0
    [] a = "postgres" -> IF isSelect THEN nrows ELSE changes
    [] a = "sqlite"   -> IF isSelect THEN nrows ELSE changes

\* ------------------------------------------------------------------ balance ledger
\* UPDATE users SET pack_balance = pack_balance - 1
\*  WHERE discord_id = ? AND pack_balance > 0         -- rows the WHERE matches
DebitMatchesNoFloor(bal) == 1
DebitMatches(bal) == IF bal > 0 THEN 1 ELSE 0

decrementPackBalance(u) ==
  /\ debitCalls[u] < MaxDebitCalls
  /\ CanLock(NoProc, UserRow(u))
  /\ LET changes == DebitMatches(pack_balance[u])
         result == RowCount(adapter, FALSE, 0, changes) > 0
     IN /\ pack_balance' = [pack_balance EXCEPT ![u] = @ - changes]
        /\ debitCalls' = [debitCalls EXCEPT ![u] = @ + 1]
        /\ debitOk' = [debitOk EXCEPT ![u] = @ + (IF result THEN 1 ELSE 0)]
  /\ UNCHANGED <<adapter, xlock, slock, now, initBalance, addedPacks>>
  /\ UNCHANGED outsideDebit

\* addPacks: UPDATE users SET pack_balance = pack_balance + ? WHERE
\* discord_id = ?, then getPackBalance
addPacks(u, count) ==
  /\ addedPacks[u] < MaxBalance
  /\ CanLock(NoProc, UserRow(u))
  /\ pack_balance' = [pack_balance EXCEPT ![u] = @ + count]
  /\ addedPacks' = [addedPacks EXCEPT ![u] = @ + count]
  /\ UNCHANGED <<adapter, xlock, slock, now, initBalance, debitCalls, debitOk>>
  /\ UNCHANGED outsideDebit

\* ------------------------------------------------------------------ rarity roll
\* Object.entries(RARITY_WEIGHTS): the tiers in insertion order
Tiers == <<"normal", "foil", "holo", "gold", "prismatic">>
TierNames == {Tiers[i] : i \in 1..Len(Tiers)}
\* RARITY_WEIGHTS, in units of 0.5
RARITY_WEIGHTS ==
  [normal |-> 139, foil |-> 40, holo |-> 16, gold |-> 4, prismatic |-> 1]
\* the tables rollRarity is checked on: the shipped one and every small one
WeightTables == [TierNames -> 0..MaxWeight] \cup {RARITY_WEIGHTS}

\* Object.values(weights).reduce((a, b) => a + b, 0)
RECURSIVE SumWeights(_, _)
SumWeights(weights, i) ==
  IF i > Len(Tiers) THEN 0 ELSE weights[Tiers[i]] + SumWeights(weights, i + 1)
totalWeight(weights) == SumWeights(weights, 1)

\* the loop of rollRarity from tier i on, with random as it stands: subtract
\* the weight, return the tier when random <= 0; after the loop, 'normal'
RECURSIVE RollFrom(_, _, _)
RollFrom(weights, i, random) ==
  IF i > Len(Tiers) THEN [rarity |-> "normal", fallback |-> TRUE]
  ELSE IF random - weights[Tiers[i]] <= 0 THEN [rarity |-> Tiers[i], fallback |-> FALSE]
  ELSE RollFrom(weights, i + 1, random - weights[Tiers[i]])

\* Math.random() * totalWeight is a real in [0, totalWeight); draws are taken
\* in steps of half a unit, so random and the weights are counted in halves
Halves(weights) == [t \in TierNames |-> 2 * weights[t]]
Draws(weights) == 0..(2 * totalWeight(weights) - 1)

RollIdle ==
  roll = [pc |-> "idle", weights |-> RARITY_WEIGHTS, random |-> 0,
          rarity |-> "none", fallback |-> FALSE]

\* ------------------------------------------------------------------ login
\* const initialPackBalance = 10
initialPackBalance == 10

\* pool: connectionLimit: 10 (mysql), max: 10 (postgres)
connectionLimit == 10

\* getUTCFullYear(), getUTCMonth(), getUTCDate() of an instant: its UTC day
UTCDate(t) == t \div DayLength

\* new Date('2026-02-01T00:00:00Z'): the end of the first day of the clock
cutoffDate == DayLength

LoginProcIdle ==
  [pc |-> "idle", user |-> NoUser, username |-> "n1", connection |-> "none",
   releases |-> 0, lastGift |-> Never, created |-> FALSE, granted |-> 0,
   result |-> "none"]

LoginIdle ==
  /\ user_rows = [u \in Users |-> [present |-> TRUE, username |-> "n1"]]
  /\ login_gifts = [u \in Users |-> <<>>]
  /\ lp = [p \in LoginProcs |-> LoginProcIdle]

StoreInit ==
  /\ xlock = [r \in Rows |-> NoProc]
  /\ slock = [r \in Rows |-> {}]
  /\ now = 0

CodeIdle ==
  /\ pack_codes = [c \in Codes |-> [present |-> FALSE, pack_count |-> 1,
                                    redeemed_by |-> NoUser, expires_at |-> Never]]
  /\ rp = [p \in RedeemProcs |-> [pc |-> "idle", code |-> NoCode, user |-> NoUser,
                                   packCount |-> 0, result |-> "none"]]
  /\ codeCredited = [c \in Codes |-> 0]
  /\ codeInit = pack_codes

TradeProcIdle ==
  [op |-> "none", pc |-> "idle", trade |-> NoTrade, user |-> NoUser, peer |-> NoUser,
   offered |-> {}, requested |-> {}, todo |-> {}, moved |-> {}, statusSet |-> FALSE,
   cascade |-> {}, result |-> "none", seenStatus |-> Unread,
   seen |-> [k \in Cards |-> Unread]]

TradeIdle ==
  /\ card_owner = [k \in Cards |-> NoUser]
  /\ trade_offers = [t \in Trades |-> [present |-> FALSE, from |-> NoUser, to |-> NoUser,
                                         status |-> "pending"]]
  /\ trade_cards = [t \in Trades |-> [offered |-> {}, requested |-> {}]]
  /\ tp = [p \in TradeProcs |-> TradeProcIdle]

GiftProcIdle ==
  [op |-> "none", pc |-> "idle", user |-> NoUser, gift |-> NoGift, ids |-> {},
   todo |-> {}, total |-> 0, at |-> 0, result |-> "none"]

GiftIdle ==
  /\ gifts = [g \in Gifts |-> [present |-> FALSE, owner |-> NoUser, pack_count |-> 1,
                                claimed |-> FALSE, expires_at |-> Never]]
  /\ gp = [p \in GiftProcs |-> GiftProcIdle]
  /\ giftStamps = [g \in Gifts |-> 0]

PackProcIdle ==
  [op |-> "none", pc |-> "idle", user |-> NoUser, size |-> 0, i |-> 0, cur |-> NoKey,
   names |-> [k \in Keys |-> "n1"], ins |-> {}, drew |-> {}, debited |-> 0,
   issued |-> 0, madeAt |-> [k \in Keys |-> 0], newSnapshots |-> [k \in Keys |-> 0],
   result |-> "none"]

PackIdle ==
  /\ card_snapshots = [k \in Keys |-> [n \in Names |-> 0]]
  /\ snap_at = [k \in Keys |-> [n \in Names |-> 0]]
  /\ player_name = [k \in Keys |-> "n1"]
  /\ eligible = {}
  /\ opened = [u \in Users |-> 0]
  /\ pp = [p \in PackProcs |-> PackProcIdle]

TradeInProcIdle ==
  [required |-> 0, pc |-> "idle", user |-> NoUser, ids |-> <<>>, i |-> 0, named |-> {}, deleted |-> {},
   result |-> "none"]

TradeInIdle ==
  /\ ip = [p \in TradeInProcs |-> TradeInProcIdle]
  /\ card0 = [k \in Cards |-> NoUser]

DebitIdle ==
  /\ initBalance = pack_balance
  /\ debitCalls = [u \in Users |-> 0]
  /\ debitOk = [u \in Users |-> 0]
  /\ addedPacks = [u \in Users |-> 0]

DebitInit ==
  /\ StoreInit
  /\ adapter \in Adapters
  /\ CodeIdle
  /\ TradeIdle
  /\ GiftIdle
  /\ PackIdle
  /\ TradeInIdle
  /\ RollIdle
  /\ LoginIdle
  /\ pack_balance \in [Users -> 0..MaxBalance]
  /\ initBalance = pack_balance
  /\ debitCalls = [u \in Users |-> 0]
  /\ debitOk = [u \in Users |-> 0]
  /\ addedPacks = [u \in Users |-> 0]

DebitNext == \E u \in Users : decrementPackBalance(u)

SpecDebit == DebitInit /\ [][DebitNext]_vars

\* C1: the balance of every user is never negative, and of the concurrent
\* debits against a balance that started at B (no credit in between) at most
\* B return success.
NoNegativeBalance ==
  \A u \in Users : pack_balance[u] >= 0 /\ debitOk[u] <= initBalance[u]

\* more debits were attempted than the balance allowed, and exactly B succeeded
NoNegativeBalanceWitness ==
  \E u \in Users :
    /\ initBalance[u] > 0
    /\ debitCalls[u] > initBalance[u]
    /\ debitOk[u] = initBalance[u]
    /\ pack_balance[u] = 0

\* C19: decrementPackBalance returns true exactly when it took one pack from
\* the balance and false exactly when it left the balance unchanged, on every
\* adapter: the packs taken so far are as many as the calls that returned true.
DebitReportsTruth ==
  \A u \in Users : initBalance[u] - pack_balance[u] = debitOk[u]

\* ------------------------------------------------------------------ code redemption
\* an expiry check that never fires
IsExpiredNever(expires_at, t) == FALSE
\* new Date(expires_at) < new Date(), guarded by expires_at being set
IsExpired(expires_at, t) == expires_at # Never /\ expires_at < t

\* 'SELECT * FROM pack_codes WHERE code = ? FOR UPDATE': the read is a locking read
RedeemSelectPlain == FALSE
RedeemSelectForUpdate == TRUE

\* redeemPackCode up to its validation: the locking read of the code row
\* and the three checks that throw (the catch rolls back and releases)
redeemSelect(p, c, u) ==
  /\ rp[p].pc = "idle"
  /\ RedeemSelectForUpdate => CanLock(p, CodeRow(c))
  /\ LET row == pack_codes[c]
         fail(reason) == /\ rp' = [rp EXCEPT ![p] = [pc |-> "done", code |-> c, user |-> u,
                                                      packCount |-> 0, result |-> reason]]
                         /\ UNCHANGED xlock
     IN IF ~row.present THEN fail("invalid")
        ELSE IF row.redeemed_by # NoUser THEN fail("redeemed")
        ELSE IF IsExpired(row.expires_at, now) THEN fail("expired")
        ELSE /\ rp' = [rp EXCEPT ![p] = [pc |-> "selected", code |-> c, user |-> u,
                                          packCount |-> row.pack_count, result |-> "none"]]
             /\ xlock' = IF RedeemSelectForUpdate
                         THEN [xlock EXCEPT ![CodeRow(c)] = p] ELSE xlock
  /\ UNCHANGED <<adapter, pack_balance, slock, now, pack_codes, codeCredited, codeInit>>
  /\ UNCHANGED outsideCode

\* UPDATE users SET pack_balance = pack_balance + ? : locks the user row
redeemCredit(p) ==
  /\ rp[p].pc = "selected"
  /\ CanLock(p, UserRow(rp[p].user))
  /\ xlock' = [xlock EXCEPT ![UserRow(rp[p].user)] = p]
  /\ rp' = [rp EXCEPT ![p].pc = "credited"]
  /\ UNCHANGED <<adapter, pack_balance, slock, now, pack_codes, codeCredited, codeInit>>
  /\ UNCHANGED outsideCode

\* UPDATE pack_codes SET redeemed_by = ?, redeemed_at = CURRENT_TIMESTAMP
redeemMark(p) ==
  /\ rp[p].pc = "credited"
  /\ CanLock(p, CodeRow(rp[p].code))
  /\ xlock' = [xlock EXCEPT ![CodeRow(rp[p].code)] = p]
  /\ rp' = [rp EXCEPT ![p].pc = "marked"]
  /\ UNCHANGED <<adapter, pack_balance, slock, now, pack_codes, codeCredited, codeInit>>
  /\ UNCHANGED outsideCode

\* the balance read, commit and release: both updates become visible at once
redeemCommit(p) ==
  /\ rp[p].pc = "marked"
  /\ LET c == rp[p].code
         u == rp[p].user
     IN /\ pack_balance' = [pack_balance EXCEPT ![u] = @ + rp[p].packCount]
        /\ pack_codes' = IF pack_codes[c].present
                         THEN [pack_codes EXCEPT ![c].redeemed_by = u]
                         ELSE pack_codes
        /\ codeCredited' = [codeCredited EXCEPT ![c] = @ + rp[p].packCount]
  /\ xlock' = ReleaseAll(p)
  /\ rp' = [rp EXCEPT ![p].pc = "done", ![p].result = "ok"]
  /\ UNCHANGED <<adapter, slock, now, codeInit>>
  /\ UNCHANGED outsideCode

\* a DELETE that does not look at redeemed_by
DeleteMatchesRedeemed(row) == row.present
\* ... WHERE code = ? AND redeemed_by IS NULL
DeleteMatches(row) == row.present /\ row.redeemed_by = NoUser

\* DELETE FROM pack_codes WHERE code = ? AND redeemed_by IS NULL
deletePackCode(c) ==
  /\ CanLock(NoProc, CodeRow(c))
  /\ DeleteMatches(pack_codes[c])
  /\ pack_codes' = [pack_codes EXCEPT ![c].present = FALSE]
  /\ UNCHANGED <<adapter, pack_balance, xlock, slock, now, rp, codeCredited, codeInit>>
  /\ UNCHANGED outsideCode

\* time passes
CodeTick ==
  /\ now < MaxTime
  /\ now' = now + 1
  /\ UNCHANGED <<adapter, pack_balance, xlock, slock, varsCode>>
  /\ UNCHANGED outsideCode

CodeInit ==
  /\ StoreInit
  /\ adapter \in Adapters
  /\ pack_balance = [u \in Users |-> 0]
  /\ DebitIdle
  /\ TradeIdle
  /\ GiftIdle
  /\ PackIdle
  /\ TradeInIdle
  /\ RollIdle
  /\ LoginIdle
  /\ pack_codes \in [Codes -> [present : {TRUE}, pack_count : 1..MaxPackCount,
                               redeemed_by : {NoUser}, expires_at : {0, Never}]]
  /\ rp = [p \in RedeemProcs |-> [pc |-> "idle", code |-> NoCode, user |-> NoUser,
                                   packCount |-> 0, result |-> "none"]]
  /\ codeCredited = [c \in Codes |-> 0]
  /\ codeInit = pack_codes

CodeNext ==
  \/ \E p \in RedeemProcs, c \in Codes, u \in Users : redeemSelect(p, c, u)
  \/ \E p \in RedeemProcs : redeemCredit(p)
  \/ \E p \in RedeemProcs : redeemMark(p)
  \/ \E p \in RedeemProcs : redeemCommit(p)
  \/ \E c \in Codes : deletePackCode(c)
  \/ CodeTick

SpecCode == CodeInit /\ [][CodeNext]_vars

RedeemCalls(c) == {p \in RedeemProcs : rp[p].code = c}
RedeemOk(c) == {p \in RedeemCalls(c) : rp[p].result = "ok"}
RedeemFinished == \A p \in RedeemProcs : rp[p].pc = "done"

\* C2: of the concurrent redemptions of one unredeemed, unexpired code never
\* more than one succeeds and never more than one payout is credited; once
\* all calls have returned exactly one has succeeded, each other call failed
\* with 'already redeemed' or 'invalid code', and the packs added to all
\* balances for the code are exactly its pack_count.
ExactlyOnceRedemption ==
  \A c \in Codes :
    /\ Cardinality(RedeemOk(c)) <= 1
    /\ codeCredited[c] <= codeInit[c].pack_count
    /\ ( /\ RedeemFinished
         /\ RedeemCalls(c) # {}
         /\ pack_codes[c].present
         /\ \A p \in RedeemCalls(c) : rp[p].result # "expired" )
       => /\ Cardinality(RedeemOk(c)) = 1
          /\ \A p \in RedeemCalls(c) \ RedeemOk(c) : rp[p].result \in {"redeemed", "invalid"}
          /\ codeCredited[c] = codeInit[c].pack_count

\* three calls raced for the same code: one won, two were told 'already redeemed'
ExactlyOnceRedemptionWitness ==
  \E c \in Codes :
    /\ RedeemFinished
    /\ RedeemCalls(c) = RedeemProcs
    /\ Cardinality(RedeemOk(c)) = 1
    /\ \E p, q \in RedeemProcs : p # q /\ rp[p].user # rp[q].user
                                  /\ rp[p].result = "redeemed" /\ rp[q].result = "redeemed"
    /\ codeCredited[c] = codeInit[c].pack_count

RedeemedStep ==
  \A c \in Codes :
    /\ pack_codes[c].redeemed_by # NoUser => pack_codes'[c] = pack_codes[c]
    /\ (pack_codes[c].present /\ ~pack_codes'[c].present)
         => pack_codes[c].redeemed_by = NoUser

RedeemerIsWinner ==
  /\ \A c \in Codes : pack_codes[c].redeemed_by # NoUser =>
       /\ pack_codes[c].present
       /\ \E p \in RedeemOk(c) : rp[p].user = pack_codes[c].redeemed_by
  /\ \A p \in RedeemProcs : rp[p].result = "ok" =>
       /\ pack_codes[rp[p].code].present
       /\ pack_codes[rp[p].code].redeemed_by = rp[p].user

\* C16: a code has one redeemer ever: once redeemed_by is set the row never
\* changes again and is never deleted, whatever redeemPackCode and
\* deletePackCode calls follow or race; deletePackCode removes a code only
\* while it is unredeemed, and a redemption that succeeded is on record.
RedeemIrreversible == [][RedeemedStep]_vars /\ []RedeemerIsWinner

\* one code was redeemed and a later call for it was refused, the other code
\* was deleted unredeemed and a call for it found nothing
RedeemIrreversibleWitness ==
  \E c, d \in Codes, p, q, r \in RedeemProcs :
    /\ pack_codes[c].present /\ pack_codes[c].redeemed_by # NoUser
    /\ rp[p].code = c /\ rp[p].result = "ok"
    /\ rp[q].code = c /\ rp[q].result = "redeemed"
    /\ ~pack_codes[d].present
    /\ rp[r].code = d /\ rp[r].result = "invalid"

\* the reason redeemPackCode owes a caller who finds this row at instant t
RedeemError(row, t) ==
  IF ~row.present THEN "invalid"
  ELSE IF row.redeemed_by # NoUser THEN "redeemed"
  ELSE IF row.expires_at # Never /\ row.expires_at < t THEN "expired"
  ELSE "none"

RedeemOutcomeStep ==
  \A p \in RedeemProcs :
    LET c == rp'[p].code
        u == rp'[p].user
    IN /\ (rp[p].pc = "idle" /\ rp'[p].pc # "idle") =>
            /\ rp'[p].pc = "done" <=> RedeemError(pack_codes[c], now) # "none"
            /\ rp'[p].pc = "done" =>
                 /\ rp'[p].result = RedeemError(pack_codes[c], now)
                 /\ UNCHANGED <<pack_codes, pack_balance>>
       /\ (rp[p].pc = "marked" /\ rp'[p].pc = "done" /\ rp'[p].result = "ok") =>
            /\ pack_codes[c].present /\ pack_codes[c].redeemed_by = NoUser
            /\ pack_balance' = [pack_balance EXCEPT ![u] = @ + pack_codes[c].pack_count]
            /\ pack_codes' = [pack_codes EXCEPT ![c].redeemed_by = u]

\* C28: redeemPackCode on an unknown, an already redeemed or an expired code
\* fails with the matching reason and leaves the code row and every balance
\* unchanged; a successful call raises the redeemer's balance by the code's
\* pack_count and records the redeemer, so that a later attempt by anyone
\* reports 'already redeemed' with the balances unchanged.
RedeemOutcome == [][RedeemOutcomeStep]_vars

\* u1 redeemed a code and was paid its pack_count; a later attempt by u1 and
\* one by u2 were told 'already redeemed'
RedeemOutcomeWitness ==
  \E c \in Codes :
    /\ pack_codes[c].redeemed_by = "u1"
    /\ \E p, q, w \in RedeemProcs :
         /\ rp[w].code = c /\ rp[w].user = "u1" /\ rp[w].result = "ok"
         /\ rp[p].code = c /\ rp[p].user = "u1" /\ rp[p].result = "redeemed"
         /\ rp[q].code = c /\ rp[q].user = "u2" /\ rp[q].result = "redeemed"
    /\ pack_balance = [u \in Users |-> IF u = "u1" THEN pack_codes[c].pack_count ELSE 0]

\* ------------------------------------------------------------------ trades
TradeFrame == UNCHANGED <<adapter, pack_balance, now>> /\ UNCHANGED outsideTrade

LinkedCards(t) == trade_cards[t].offered \cup trade_cards[t].requested

\* a request returns (after rollback and release where it had a transaction);
\* its locals are gone, the call and its outcome are kept
TradeReturn(p, reason) ==
  [tp EXCEPT ![p] = [TradeProcIdle EXCEPT !.op = tp[p].op, !.pc = "done",
                                          !.trade = tp[p].trade, !.user = tp[p].user,
                                          !.result = reason]]
TradeReject(p, op, t, u, reason) ==
  [tp EXCEPT ![p] = [TradeProcIdle EXCEPT !.op = op, !.pc = "done", !.trade = t,
                                          !.user = u, !.result = reason]]

\* better-sqlite3 runs every statement synchronously on the one shared handle
\* and the trade services await nothing else, so under sqlite a call runs to
\* its end before another starts; mysql and pg pool connections interleave
Scheduled(p) ==
  adapter = "sqlite" => \A q \in TradeProcs \ {p} : tp[q].pc \in {"idle", "done"}

\* acceptTradeOffer runs between connection.beginTransaction() and commit()
AcceptAutocommit == FALSE
AcceptInTransaction == TRUE

\* a row lock taken by a statement is kept until commit only inside a transaction
Hold(p, r) == IF AcceptInTransaction THEN [xlock EXCEPT ![r] = p] ELSE xlock

\* a check that lets either party of the trade through
MayAcceptEitherParty(row, u) == u \in {row.to, row.from}
\* trade.to_user_id !== acceptingUserId throws
MayAccept(row, u) == row.to = u

\* SELECT * FROM trade_offers WHERE id = ? AND status = 'pending' FOR UPDATE,
\* then the recipient check
accSelect(p, t, u) ==
  /\ Scheduled(p)
  /\ tp[p].pc = "idle"
  /\ CanLock(p, TradeRow(t))
  /\ LET row == trade_offers[t]
     IN IF ~row.present \/ row.status # "pending"
        THEN tp' = TradeReject(p, "accept", t, u, "notpending") /\ UNCHANGED xlock
        ELSE IF ~MayAccept(row, u)
        THEN tp' = TradeReject(p, "accept", t, u, "notrecipient") /\ UNCHANGED xlock
        ELSE /\ tp' = [tp EXCEPT ![p] = [TradeProcIdle EXCEPT !.op = "accept", !.pc = "links",
                                                                !.trade = t, !.user = u]]
             /\ xlock' = Hold(p, TradeRow(t))
  /\ UNCHANGED <<slock, card_owner, trade_offers, trade_cards>>
  /\ TradeFrame

\* SELECT owned_card_id, is_offered FROM trade_offer_cards WHERE trade_offer_id = ?
accLinks(p) ==
  /\ Scheduled(p)
  /\ tp[p].op = "accept" /\ tp[p].pc = "links"
  /\ LET t == tp[p].trade
     IN tp' = [tp EXCEPT ![p].offered = trade_cards[t].offered,
                         ![p].requested = trade_cards[t].requested,
                         ![p].todo = LinkedCards(t),
                         ![p].pc = IF LinkedCards(t) = {} THEN "status" ELSE "verify"]
  /\ UNCHANGED <<xlock, slock, card_owner, trade_offers, trade_cards>>
  /\ TradeFrame

\* a check that expects every card of the trade with its sender
ExpectedOwnerSender(row, isOffered) == row.from
\* expectedOwner = row.is_offered ? trade.from_user_id : trade.to_user_id
ExpectedOwner(row, isOffered) == IF isOffered THEN row.from ELSE row.to

\* one round of the ownership loop:
\* SELECT discord_user_id FROM owned_cards WHERE id = ? FOR UPDATE
accVerify(p, k) ==
  /\ Scheduled(p)
  /\ tp[p].op = "accept" /\ tp[p].pc = "verify"
  /\ k \in tp[p].todo
  /\ CanLock(p, CardRow(k))
  /\ LET row == trade_offers[tp[p].trade]
         expectedOwner == ExpectedOwner(row, k \in tp[p].offered)
     IN IF card_owner[k] = NoUser
        THEN /\ tp' = TradeReturn(p, "gone")
             /\ xlock' = ReleaseAll(p)
        ELSE IF card_owner[k] # expectedOwner
        THEN /\ tp' = TradeReturn(p, "stale")
             /\ xlock' = ReleaseAll(p)
        ELSE /\ tp' = [tp EXCEPT ![p].todo = @ \ {k},
                                 ![p].pc = IF tp[p].todo = {k} THEN "swap" ELSE "verify"]
             /\ xlock' = Hold(p, CardRow(k))
  /\ UNCHANGED <<slock, card_owner, trade_offers, trade_cards>>
  /\ TradeFrame

\* a swap that hands every card to the recipient
NewOwnerRecipient(p, k) == trade_offers[tp[p].trade].to
\* the owner the swap gives card k of the trade p is accepting
NewOwner(p, k) ==
  IF k \in tp[p].offered THEN trade_offers[tp[p].trade].to
                         ELSE trade_offers[tp[p].trade].from

\* one round of the swap loop: UPDATE owned_cards SET discord_user_id = ? WHERE id = ?
accSwap(p, k) ==
  /\ Scheduled(p)
  /\ tp[p].op = "accept" /\ tp[p].pc = "swap"
  /\ k \in (tp[p].offered \cup tp[p].requested) \ tp[p].moved
  /\ CanLock(p, CardRow(k))
  /\ tp' = [tp EXCEPT ![p].moved = @ \cup {k},
                      ![p].pc = IF tp[p].moved \cup {k} = tp[p].offered \cup tp[p].requested
                                THEN "status" ELSE "swap"]
  /\ card_owner' = IF AcceptInTransaction \/ card_owner[k] = NoUser
                   THEN card_owner
                   ELSE [card_owner EXCEPT ![k] = NewOwner(p, k)]
  /\ UNCHANGED <<xlock, slock, trade_offers, trade_cards>>
  /\ TradeFrame

\* UPDATE trade_offers SET status = 'accepted' WHERE id = ?
accStatus(p) ==
  /\ Scheduled(p)
  /\ tp[p].op = "accept" /\ tp[p].pc = "status"
  /\ CanLock(p, TradeRow(tp[p].trade))
  /\ tp' = [tp EXCEPT ![p].statusSet = TRUE, ![p].pc = "cascade"]
  /\ trade_offers' = IF AcceptInTransaction
                     THEN trade_offers
                     ELSE [trade_offers EXCEPT ![tp[p].trade].status = "accepted"]
  /\ UNCHANGED <<xlock, slock, card_owner, trade_cards>>
  /\ TradeFrame

\* how the adapter binds the array cardIds to the one placeholder of
\* owned_card_id IN (?): mysql2 expands it to a list of ids; pg sends it as one
\* array literal, a text no id equals; better-sqlite3 spreads it over the
\* placeholders and throws when there are more values than placeholders
CascadeIds(a, cardIds) == IF a = "postgres" THEN {} ELSE cardIds
CascadeThrows(a, cardIds) == a = "sqlite" /\ Cardinality(cardIds) > 1

\* a cascade that looks only at the offered side
CascadeTargetsOfferedOnly(t, cardIds) ==
  {t2 \in Trades \ {t} : /\ trade_offers[t2].present
                         /\ trade_offers[t2].status = "pending"
                         /\ trade_cards[t2].offered \cap cardIds # {}}
\* the rows the cascade UPDATE matches: id != ? AND status = 'pending' AND id IN
\* (SELECT trade_offer_id FROM trade_offer_cards WHERE owned_card_id IN (?))
CascadeTargets(t, cardIds) ==
  {t2 \in Trades \ {t} : /\ trade_offers[t2].present
                         /\ trade_offers[t2].status = "pending"
                         /\ LinkedCards(t2) \cap cardIds # {}}

\* UPDATE trade_offers SET status = 'cancelled' WHERE ..., skipped without cards
accCascade(p) ==
  /\ Scheduled(p)
  /\ tp[p].op = "accept" /\ tp[p].pc = "cascade"
  /\ LET cardIds == tp[p].offered \cup tp[p].requested
         targets == IF cardIds = {} THEN {}
                    ELSE CascadeTargets(tp[p].trade, CascadeIds(adapter, cardIds))
     IN IF cardIds # {} /\ CascadeThrows(adapter, cardIds)
        THEN /\ tp' = TradeReturn(p, "error")
             /\ xlock' = ReleaseAll(p)
             /\ UNCHANGED trade_offers
        ELSE /\ \A t2 \in targets : CanLock(p, TradeRow(t2))
             /\ tp' = [tp EXCEPT ![p].cascade = targets, ![p].pc = "commit"]
             /\ xlock' = IF AcceptInTransaction
                         THEN [r \in Rows |-> IF r \in {TradeRow(t2) : t2 \in targets}
                                              THEN p ELSE xlock[r]]
                         ELSE xlock
             /\ trade_offers' = IF AcceptInTransaction
                                THEN trade_offers
                                ELSE [t2 \in Trades |-> IF t2 \in targets
                                         THEN [trade_offers[t2] EXCEPT !.status = "cancelled"]
                                         ELSE trade_offers[t2]]
  /\ UNCHANGED <<slock, card_owner, trade_cards>>
  /\ TradeFrame

\* connection.commit(): the swaps, the new status and the cascade become
\* visible together; release
accCommit(p) ==
  /\ Scheduled(p)
  /\ tp[p].op = "accept" /\ tp[p].pc = "commit"
  /\ card_owner' = IF AcceptInTransaction
                   THEN [k \in Cards |-> IF k \in tp[p].moved /\ card_owner[k] # NoUser
                                         THEN NewOwner(p, k) ELSE card_owner[k]]
                   ELSE card_owner
  /\ trade_offers' = IF AcceptInTransaction
                     THEN [t2 \in Trades |->
                             IF t2 = tp[p].trade /\ tp[p].statusSet
                             THEN [trade_offers[t2] EXCEPT !.status = "accepted"]
                             ELSE IF t2 \in tp[p].cascade
                             THEN [trade_offers[t2] EXCEPT !.status = "cancelled"]
                             ELSE trade_offers[t2]]
                     ELSE trade_offers
  /\ xlock' = ReleaseAll(p)
  /\ tp' = TradeReturn(p, "ok")
  /\ UNCHANGED <<slock, trade_cards>>
  /\ TradeFrame

\* a statement of the transaction throws (lock wait timeout, deadlock victim,
\* lost connection): catch, connection.rollback(), release
accAbort(p) ==
  /\ Scheduled(p)
  /\ tp[p].op = "accept"
  /\ tp[p].pc \in {"links", "verify", "swap", "status", "cascade", "commit"}
  /\ xlock' = ReleaseAll(p)
  /\ tp' = TradeReturn(p, "error")
  /\ UNCHANGED <<slock, card_owner, trade_offers, trade_cards>>
  /\ TradeFrame

\* rejectTradeOffer, first query (db.query, no transaction, no lock):
\* SELECT * FROM trade_offers WHERE id = ? AND status = 'pending'
rejSelect(p, t, u) ==
  /\ Scheduled(p)
  /\ tp[p].pc = "idle"
  /\ LET row == trade_offers[t]
     IN tp' = IF ~row.present \/ row.status # "pending"
              THEN TradeReject(p, "reject", t, u, "notpending")
              ELSE IF row.to # u
              THEN TradeReject(p, "reject", t, u, "notrecipient")
              ELSE [tp EXCEPT ![p] = [TradeProcIdle EXCEPT !.op = "reject", !.pc = "update",
                                                           !.trade = t, !.user = u]]
  /\ UNCHANGED <<xlock, slock, card_owner, trade_offers, trade_cards>>
  /\ TradeFrame

\* an UPDATE of the status without its WHERE id = ?
SetStatusEverywhere(t, status) ==
  [t2 \in Trades |-> [trade_offers[t2] EXCEPT !.status = status]]
\* UPDATE trade_offers SET status = ... WHERE id = ?
SetStatus(t, status) ==
  IF trade_offers[t].present THEN [trade_offers EXCEPT ![t].status = status]
                             ELSE trade_offers

\* rejectTradeOffer, second query:
\* UPDATE trade_offers SET status = 'rejected' WHERE id = ?
rejUpdate(p) ==
  /\ Scheduled(p)
  /\ tp[p].op = "reject" /\ tp[p].pc = "update"
  /\ CanLock(p, TradeRow(tp[p].trade))
  /\ trade_offers' = SetStatus(tp[p].trade, "rejected")
  /\ tp' = TradeReturn(p, "ok")
  /\ UNCHANGED <<xlock, slock, card_owner, trade_cards>>
  /\ TradeFrame

\* cancelTradeOffer, first query (db.query, no transaction, no lock)
canSelect(p, t, u) ==
  /\ Scheduled(p)
  /\ tp[p].pc = "idle"
  /\ LET row == trade_offers[t]
     IN tp' = IF ~row.present \/ row.status # "pending"
              THEN TradeReject(p, "cancel", t, u, "notpending")
              ELSE IF row.from # u
              THEN TradeReject(p, "cancel", t, u, "notsender")
              ELSE [tp EXCEPT ![p] = [TradeProcIdle EXCEPT !.op = "cancel", !.pc = "update",
                                                           !.trade = t, !.user = u]]
  /\ UNCHANGED <<xlock, slock, card_owner, trade_offers, trade_cards>>
  /\ TradeFrame

\* cancelTradeOffer, second query:
\* UPDATE trade_offers SET status = 'cancelled' WHERE id = ?
canUpdate(p) ==
  /\ Scheduled(p)
  /\ tp[p].op = "cancel" /\ tp[p].pc = "update"
  /\ CanLock(p, TradeRow(tp[p].trade))
  /\ trade_offers' = SetStatus(tp[p].trade, "cancelled")
  /\ tp' = TradeReturn(p, "ok")
  /\ UNCHANGED <<xlock, slock, card_owner, trade_cards>>
  /\ TradeFrame

\* getTradeOfferById, first query: SELECT * FROM trade_offers WHERE id = ?
readTrade(p, t) ==
  /\ Scheduled(p)
  /\ tp[p].pc = "idle"
  /\ tp' = IF ~trade_offers[t].present
           THEN TradeReject(p, "read", t, NoUser, "null")
           ELSE [tp EXCEPT ![p] = [TradeProcIdle EXCEPT !.op = "read", !.pc = "links",
                                     !.trade = t, !.seenStatus = trade_offers[t].status]]
  /\ UNCHANGED <<xlock, slock, card_owner, trade_offers, trade_cards>>
  /\ TradeFrame

\* getTradeOfferById, second query: the linkage rows of the trade
readLinks(p) ==
  /\ Scheduled(p)
  /\ tp[p].op = "read" /\ tp[p].pc = "links"
  /\ LET t == tp[p].trade
     IN tp' = [tp EXCEPT ![p].offered = trade_cards[t].offered,
                         ![p].requested = trade_cards[t].requested,
                         ![p].todo = LinkedCards(t),
                         ![p].pc = IF LinkedCards(t) = {} THEN "done" ELSE "cards",
                         ![p].result = IF LinkedCards(t) = {} THEN "ok" ELSE "none"]
  /\ UNCHANGED <<xlock, slock, card_owner, trade_offers, trade_cards>>
  /\ TradeFrame

\* getTradeOfferById, one round of its loop: getCardById(row.owned_card_id)
readCard(p, k) ==
  /\ Scheduled(p)
  /\ tp[p].op = "read" /\ tp[p].pc = "cards"
  /\ k \in tp[p].todo
  /\ tp' = [tp EXCEPT ![p].seen[k] = card_owner[k],
                      ![p].todo = @ \ {k},
                      ![p].pc = IF tp[p].todo = {k} THEN "done" ELSE "cards",
                      ![p].result = IF tp[p].todo = {k} THEN "ok" ELSE "none"]
  /\ UNCHANGED <<xlock, slock, card_owner, trade_offers, trade_cards>>
  /\ TradeFrame

\* a validation without the check of toUserId against the caller
ProposalErrorNoSelfCheck(u, v, off, req) ==
  IF off = {} /\ req = {} THEN "empty" ELSE "none"
\* the two checks of POST /trades on well-formed arrays
ProposalError(u, v, off, req) ==
  IF off = {} /\ req = {} THEN "empty"
  ELSE IF v = u THEN "self"
  ELSE "none"

\* POST /trades validation, then createTradeOffer begins its transaction.
\* The id is a fresh uuid.  Offered and requested ids that overlap can only
\* fail the ownership checks and are left out of the inputs.
crStart(p, t, u, v, off, req) ==
  /\ Scheduled(p)
  /\ tp[p].pc = "idle"
  /\ ~trade_offers[t].present
  /\ off \cap req = {}
  /\ LET call == [TradeProcIdle EXCEPT !.op = "create", !.user = u, !.peer = v,
                                       !.offered = off, !.requested = req]
         error == ProposalError(u, v, off, req)
     IN tp' = IF error # "none"
              THEN [tp EXCEPT ![p] = [call EXCEPT !.pc = "done", !.result = error]]
              ELSE [tp EXCEPT ![p] = [call EXCEPT !.pc = "verify", !.trade = t,
                                                   !.todo = off \cup req]]
  /\ UNCHANGED <<xlock, slock, card_owner, trade_offers, trade_cards>>
  /\ TradeFrame

\* the offered ids are handled before the requested ids
CreateTurn(p, k) ==
  /\ k \in tp[p].todo
  /\ k \in tp[p].offered \/ tp[p].todo \cap tp[p].offered = {}

\* one round of the two ownership loops (plain SELECT, no lock); after the
\* last one the trade row is inserted, which no other connection sees yet
crVerify(p, k) ==
  /\ Scheduled(p)
  /\ tp[p].op = "create" /\ tp[p].pc = "verify"
  /\ CreateTurn(p, k)
  /\ LET expectedOwner == IF k \in tp[p].offered THEN tp[p].user ELSE tp[p].peer
     IN tp' = IF card_owner[k] # expectedOwner
              THEN TradeReturn(p, "notowner")
              ELSE IF tp[p].todo = {k}
              THEN [tp EXCEPT ![p].todo = tp[p].offered \cup tp[p].requested,
                              ![p].pc = "link"]
              ELSE [tp EXCEPT ![p].todo = @ \ {k}]
  /\ UNCHANGED <<xlock, slock, card_owner, trade_offers, trade_cards>>
  /\ TradeFrame

\* one INSERT INTO trade_offer_cards: the FOREIGN KEY (owned_card_id) check
\* takes a shared lock on the card row and fails if the card is gone
crLink(p, k) ==
  /\ Scheduled(p)
  /\ tp[p].op = "create" /\ tp[p].pc = "link"
  /\ CreateTurn(p, k)
  /\ CanShare(p, CardRow(k))
  /\ IF card_owner[k] = NoUser
     THEN /\ tp' = TradeReturn(p, "error")
          /\ slock' = ReleaseShared(p)
     ELSE /\ tp' = [tp EXCEPT ![p].todo = @ \ {k},
                              ![p].pc = IF tp[p].todo = {k} THEN "commit" ELSE "link"]
          /\ slock' = [slock EXCEPT ![CardRow(k)] = @ \cup {p}]
  /\ UNCHANGED <<xlock, card_owner, trade_offers, trade_cards>>
  /\ TradeFrame

\* linkage rows for the offered ids only
LinkRowsOfferedOnly(p) == [offered |-> tp[p].offered, requested |-> {}]
\* one trade_offer_cards row per offered id (is_offered true) and per
\* requested id (is_offered false)
LinkRows(p) == [offered |-> tp[p].offered, requested |-> tp[p].requested]

\* connection.commit(): the trade row and its linkage rows appear together
crCommit(p) ==
  /\ Scheduled(p)
  /\ tp[p].op = "create" /\ tp[p].pc = "commit"
  /\ trade_offers' = [trade_offers EXCEPT ![tp[p].trade] =
                        [present |-> TRUE, from |-> tp[p].user, to |-> tp[p].peer,
                         status |-> "pending"]]
  /\ trade_cards' = [trade_cards EXCEPT ![tp[p].trade] = LinkRows(p)]
  /\ slock' = ReleaseShared(p)
  /\ tp' = TradeReturn(p, "ok")
  /\ UNCHANGED <<xlock, card_owner>>
  /\ TradeFrame

\* cards as earlier pack openings left them
CardOwner0 == [k \in Cards |-> IF k = "k4" THEN NoUser ELSE IF k = "k2" THEN "u2" ELSE "u1"]
OwnedBy(u) == {k \in Cards : CardOwner0[k] = u}

\* offers that createTradeOffer has committed and nobody has answered yet
PendingOffers ==
  {o \in [present : {TRUE}, from : Users, to : Users, status : {"pending"},
          offered : SUBSET Cards, requested : SUBSET Cards] :
     /\ o.from # o.to
     /\ o.offered \cup o.requested # {}
     /\ Cardinality(o.offered) <= 1 /\ Cardinality(o.requested) <= 1
     /\ o.offered \subseteq OwnedBy(o.from)
     /\ o.requested \subseteq OwnedBy(o.to)}

\* t1 (k1 of u1 for k2 of u2) and t2 (any offer of one card) are pending,
\* t3 is an id no offer has yet; DB_TYPE is one of A
TradeStart(A) ==
  /\ StoreInit
  /\ adapter \in A
  /\ pack_balance = [u \in Users |-> 0]
  /\ DebitIdle
  /\ CodeIdle
  /\ GiftIdle
  /\ PackIdle
  /\ TradeInIdle
  /\ RollIdle
  /\ LoginIdle
  /\ card_owner = CardOwner0
  /\ \E o1 \in PendingOffers, o2 \in PendingOffers :
       /\ o1.from = "u1" /\ o1.offered = {"k1"} /\ o1.requested = {"k2"}
       /\ Cardinality(o2.offered \cup o2.requested) = 1
       /\ trade_offers = [t \in Trades |->
            IF t = "t1" THEN [present |-> TRUE, from |-> o1.from, to |-> o1.to, status |-> "pending"]
            ELSE IF t = "t2" THEN [present |-> TRUE, from |-> o2.from, to |-> o2.to, status |-> "pending"]
            ELSE [present |-> FALSE, from |-> NoUser, to |-> NoUser, status |-> "pending"]]
       /\ trade_cards = [t \in Trades |->
            IF t = "t1" THEN [offered |-> o1.offered, requested |-> o1.requested]
            ELSE IF t = "t2" THEN [offered |-> o2.offered, requested |-> o2.requested]
            ELSE [offered |-> {}, requested |-> {}]]
  /\ tp = [p \in TradeProcs |-> TradeProcIdle]

\* DB_TYPE unset: getConfig falls back to mysql
TradeInit == TradeStart({"mysql"})
\* any of the three adapters
TradeInitAny == TradeStart(Adapters)

\* the steps of acceptTradeOffer, of rejectTradeOffer and cancelTradeOffer,
\* of createTradeOffer and of getTradeOfferById
AcceptStepsBy(P, U) ==
  \/ \E p \in P, t \in Trades, u \in U : accSelect(p, t, u)
  \/ \E p \in P : accLinks(p)
  \/ \E p \in P, k \in Cards : accVerify(p, k)
  \/ \E p \in P, k \in Cards : accSwap(p, k)
  \/ \E p \in P : accStatus(p)
  \/ \E p \in P : accCascade(p)
  \/ \E p \in P : accCommit(p)
  \/ \E p \in P : accAbort(p)

AcceptSteps(P) == AcceptStepsBy(P, Users)

AnswerStepsBy(P, U) ==
  \/ \E p \in P, t \in Trades, u \in U : rejSelect(p, t, u)
  \/ \E p \in P : rejUpdate(p)
  \/ \E p \in P, t \in Trades, u \in U : canSelect(p, t, u)
  \/ \E p \in P : canUpdate(p)

AnswerSteps(P) == AnswerStepsBy(P, Users)

CreateSteps(P) ==
  \/ \E p \in P, u \in Users, v \in Users, off \in SUBSET Cards, req \in SUBSET Cards :
        /\ Cardinality(off) <= 1 /\ Cardinality(req) <= 1
        /\ crStart(p, "t3", u, v, off, req)
  \/ \E p \in P, k \in Cards : crVerify(p, k)
  \/ \E p \in P, k \in Cards : crLink(p, k)
  \/ \E p \in P : crCommit(p)

ReadSteps(P) ==
  \/ \E p \in P, t \in Trades : readTrade(p, t)
  \/ \E p \in P : readLinks(p)
  \/ \E p \in P, k \in Cards : readCard(p, k)

\* two requests that accept, reject or cancel, and one that proposes
TradeNext ==
  \/ AcceptSteps(TradeActors)
  \/ AnswerSteps(TradeActors)
  \/ CreateSteps(TradeCreators)

SpecTrade == TradeInit /\ [][TradeNext]_vars

\* one acceptance and one reader of a trade
TradeReadNext ==
  \/ AcceptSteps({"x1"})
  \/ ReadSteps(TradeReaders)

SpecTradeRead == TradeInit /\ [][TradeReadNext]_vars

\* two acceptances, under each adapter
CascadeNext == AcceptSteps(TradeActors)

SpecCascade == TradeInitAny /\ [][CascadeNext]_vars

\* two requests that accept, reject or cancel, under each adapter
AnswerNext ==
  \/ AcceptSteps(TradeActors)
  \/ AnswerSteps(TradeActors)

SpecAnswer == TradeInitAny /\ [][AnswerNext]_vars

\* two requests that accept, reject or cancel, made by a party of the trade
\* or by a user who is neither, under each adapter
GuardNext ==
  \/ AcceptStepsBy(TradeActors, Callers)
  \/ AnswerStepsBy(TradeActors, Callers)

SpecGuard == TradeInitAny /\ [][GuardNext]_vars

\* the request has been answered and the next POST /trades/:id/accept arrives
accNextRequest(p) ==
  /\ tp[p].op = "accept" /\ tp[p].pc = "done"
  /\ tp' = [tp EXCEPT ![p] = TradeProcIdle]
  /\ UNCHANGED <<xlock, slock, card_owner, trade_offers, trade_cards>>
  /\ TradeFrame

\* acceptances one after another and one proposal, under each adapter
StaleNext ==
  \/ AcceptSteps({"x1"})
  \/ accNextRequest("x1")
  \/ CreateSteps(TradeCreators)

SpecStale == TradeInitAny /\ [][StaleNext]_vars

\* ---- properties of the trade engine

\* the cards whose owner this step changes
MovedCards == {k \in Cards : card_owner'[k] # card_owner[k]}
\* this step commits the acceptance of t
Accepts(t) == trade_offers[t].status = "pending" /\ trade_offers'[t].status = "accepted"

\* a step moves cards only as the whole swap of one trade that the same step
\* marks accepted, and marks a trade accepted only together with its whole swap
TradeAtomicStep ==
  /\ MovedCards # {} =>
       \E t \in Trades : Accepts(t) /\ MovedCards = LinkedCards(t)
  /\ \A t \in Trades : Accepts(t) =>
       /\ \A k \in trade_cards[t].offered : card_owner'[k] = trade_offers[t].to
       /\ \A k \in trade_cards[t].requested : card_owner'[k] = trade_offers[t].from

\* what a finished getTradeOfferById(t) returned: the cards it shows with the
\* owner the swap of t gives them
SeenSwapped(p) ==
  {k \in tp[p].offered \cup tp[p].requested :
     tp[p].seen[k] = IF k \in tp[p].offered THEN trade_offers[tp[p].trade].to
                                            ELSE trade_offers[tp[p].trade].from}

\* a reader of trade t, concurrent with the acceptance of t only, sees either
\* no card of t moved and t not accepted, or every card moved and t accepted
NoTornRead ==
  \A p \in TradeReaders :
    ( /\ tp[p].op = "read" /\ tp[p].pc = "done" /\ tp[p].result = "ok"
      /\ \A a \in TradeActors : tp[a].pc = "idle" \/ tp[a].trade = tp[p].trade )
    => \/ SeenSwapped(p) = {} /\ tp[p].seenStatus # "accepted"
       \/ /\ SeenSwapped(p) = tp[p].offered \cup tp[p].requested
          /\ tp[p].seenStatus = "accepted"

\* C3: acceptTradeOffer moves all cards of the trade and marks it accepted, or
\* moves none and leaves the status; no concurrent reader observes only some
\* cards moved, or cards moved under a trade still shown as pending.
TradeAtomicity == [][TradeAtomicStep]_vars /\ []NoTornRead

\* C4: in the step that commits the acceptance of t, every other trade that
\* was pending and references a card the step moves becomes cancelled, and a
\* trade that references none of the moved cards keeps its status.
CascadeStep ==
  \A t \in Trades : Accepts(t) =>
    \A t2 \in Trades \ {t} :
      /\ ( /\ trade_offers[t2].present
           /\ trade_offers[t2].status = "pending"
           /\ LinkedCards(t2) \cap MovedCards # {} )
         => trade_offers'[t2].status = "cancelled"
      /\ LinkedCards(t2) \cap MovedCards = {} => trade_offers'[t2] = trade_offers[t2]
CascadeCorrectness == [][CascadeStep]_vars

\* C5: a trade that has left 'pending' never changes status again.
TerminalStep ==
  \A t \in Trades :
    (trade_offers[t].present /\ trade_offers[t].status # "pending")
      => trade_offers'[t].status = trade_offers[t].status
TradeStatusTerminal == [][TerminalStep]_vars

\* call p commits the acceptance of its trade in this step
AcceptCommits(p) ==
  /\ tp[p].op = "accept" /\ tp[p].pc = "commit"
  /\ tp'[p].pc = "done" /\ tp'[p].result = "ok"

AcceptOutcomeStep ==
  \A p \in TradeActors : AcceptCommits(p) =>
    LET t == tp[p].trade
    IN /\ \A k \in trade_cards[t].offered : card_owner'[k] = trade_offers[t].to
       /\ \A k \in trade_cards[t].requested : card_owner'[k] = trade_offers[t].from
       /\ trade_offers'[t].status = "accepted"
       /\ \A k \in Cards \ LinkedCards(t) : card_owner'[k] = card_owner[k]

\* C20: when acceptTradeOffer succeeds, every card recorded as offered is
\* owned by to_user_id, every card recorded as requested by from_user_id,
\* the status of the trade is 'accepted', and no card outside the trade has
\* changed owner.
AcceptOutcome == [][AcceptOutcomeStep]_vars

\* t1 was accepted: k1 went to u2, k2 to u1, and k3 stayed with u1
AcceptOutcomeWitness ==
  /\ trade_offers["t1"].status = "accepted"
  /\ \E p \in TradeActors : tp[p].trade = "t1" /\ tp[p].result = "ok"
  /\ card_owner["k1"] = "u2" /\ card_owner["k2"] = "u1" /\ card_owner["k3"] = "u1"

\* call p of acceptTradeOffer throws in this step
AcceptFails(p) ==
  /\ tp[p].pc # "done" /\ tp'[p].pc = "done"
  /\ tp'[p].op = "accept" /\ tp'[p].result # "ok"

AcceptGuardStep ==
  \A p \in TradeActors :
    /\ AcceptCommits(p) =>
         /\ trade_offers[tp[p].trade].present
         /\ trade_offers[tp[p].trade].to = tp[p].user
         /\ trade_offers[tp[p].trade].status = "pending"
    /\ AcceptFails(p) => UNCHANGED <<card_owner, trade_offers>>

\* an accept by someone other than the recipient, or of a trade that is not
\* pending or not known, has returned with the matching error
AcceptRefused ==
  \A p \in TradeActors :
    (tp[p].op = "accept" /\ tp[p].pc = "done") =>
      LET row == trade_offers[tp[p].trade]
      IN /\ (row.present /\ row.to # tp[p].user) => tp[p].result # "ok"
         /\ ~row.present => tp[p].result = "notpending"

\* C21: acceptTradeOffer succeeds only for the to_user_id of a pending trade;
\* a call by the proposer or a third party, or on a trade that is not pending
\* or unknown, fails and leaves every card owner and every trade status as
\* it was.
AcceptGuard == [][AcceptGuardStep]_vars /\ []AcceptRefused

\* a third party was refused t1 and its recipient then accepted it
AcceptGuardWitness ==
  /\ tp["x1"].op = "accept" /\ tp["x1"].trade = "t1"
  /\ tp["x1"].user = Stranger /\ tp["x1"].result = "notrecipient"
  /\ tp["x2"].op = "accept" /\ tp["x2"].trade = "t1" /\ tp["x2"].result = "ok"
  /\ trade_offers["t1"].status = "accepted"

\* the cards linked to t that exist and are not with the party that is to
\* hand them over
StaleCards(t) ==
  {k \in LinkedCards(t) :
     /\ card_owner[k] # NoUser
     /\ card_owner[k] # IF k \in trade_cards[t].offered THEN trade_offers[t].from
                                                        ELSE trade_offers[t].to}

\* call p of acceptTradeOffer leaves its ownership loop in this step
AcceptChecked(p) ==
  /\ tp[p].op = "accept" /\ tp[p].pc = "verify"
  /\ tp'[p].pc # "verify" /\ tp'[p].result # "error"

AcceptStaleStep ==
  \A p \in TradeActors :
    /\ AcceptChecked(p) =>
         /\ tp'[p].result = "stale" <=> StaleCards(tp[p].trade) # {}
         /\ tp'[p].result = "stale" => tp'[p].pc = "done"
    /\ (tp[p].pc # "done" /\ tp'[p].pc = "done" /\ tp'[p].result = "stale") =>
         UNCHANGED <<card_owner, trade_offers>>
    /\ AcceptCommits(p) => StaleCards(tp[p].trade) = {}

\* C22: when a card recorded as offered is not owned by from_user_id, or one
\* recorded as requested is not owned by to_user_id, acceptTradeOffer fails
\* with the 'ownership has changed' error, no card changes owner and the
\* status is not set to accepted.
AcceptStaleness == [][AcceptStaleStep]_vars

\* an acceptance was refused because a card of the trade had changed hands,
\* and the trade is still not accepted
AcceptStalenessWitness ==
  \E p \in TradeActors :
    /\ tp[p].op = "accept" /\ tp[p].pc = "done" /\ tp[p].result = "stale"
    /\ StaleCards(tp[p].trade) # {}
    /\ trade_offers[tp[p].trade].status # "accepted"

\* call p of rejectTradeOffer (op "reject") or cancelTradeOffer (op "cancel")
\* returns in this step, with reason as its outcome
AnswerReturns(p, op) ==
  /\ tp[p].pc # "done" /\ tp'[p].pc = "done" /\ tp'[p].op = op

AnswerGuardStep ==
  \A p \in TradeActors :
    LET t == tp'[p].trade
        row == trade_offers[t]
    IN /\ (AnswerReturns(p, "reject") /\ tp'[p].result = "ok") =>
            /\ row.present /\ row.status = "pending" /\ row.to = tp'[p].user
            /\ trade_offers'[t].status = "rejected"
       /\ (AnswerReturns(p, "cancel") /\ tp'[p].result = "ok") =>
            /\ row.present /\ row.status = "pending" /\ row.from = tp'[p].user
            /\ trade_offers'[t].status = "cancelled"
       /\ ( /\ AnswerReturns(p, "reject") \/ AnswerReturns(p, "cancel")
            /\ tp'[p].result # "ok" ) => UNCHANGED trade_offers

\* C23: rejectTradeOffer moves a trade to 'rejected' only for to_user_id on a
\* pending trade, cancelTradeOffer moves it to 'cancelled' only for
\* from_user_id on a pending trade; any other caller or trade gets an error
\* and no status changes.
AnswerGuard == [][AnswerGuardStep]_vars

\* the step is one of rejectTradeOffer or cancelTradeOffer
AnswerActs ==
  \E p \in TradeActors :
    \/ tp[p].pc = "idle" /\ tp'[p].op \in {"reject", "cancel"}
    \/ tp[p].op \in {"reject", "cancel"} /\ tp[p].pc # "done" /\ tp'[p] # tp[p]

AnswerFrameStep ==
  AnswerActs =>
    /\ UNCHANGED <<card_owner, pack_balance, trade_cards>>
    /\ \A p \in TradeActors : \A t \in Trades :
         (tp'[p] # tp[p] /\ t # tp'[p].trade) => trade_offers'[t] = trade_offers[t]

\* C24: rejectTradeOffer and cancelTradeOffer leave the owner of every card,
\* every pack balance, the linkage rows of the trade and the status of every
\* other trade unchanged.
AnswerFrame == [][AnswerFrameStep]_vars

\* t1 was rejected by its recipient: the cards, the linkage and t2 are as before
AnswerFrameWitness ==
  /\ trade_offers["t1"].status = "rejected"
  /\ \E p \in TradeActors : tp[p].op = "reject" /\ tp[p].trade = "t1" /\ tp[p].result = "ok"
  /\ card_owner = CardOwner0
  /\ trade_cards["t1"] = [offered |-> {"k1"}, requested |-> {"k2"}]
  /\ trade_offers["t2"].status = "pending"

\* the rows the next statement of acceptance p has to lock: a card of the
\* ownership loop, the trades the cascade UPDATE matches
AwaitedRows(p) ==
  IF tp[p].op = "accept" /\ tp[p].pc = "verify"
  THEN {CardRow(k) : k \in tp[p].todo}
  ELSE IF tp[p].op = "accept" /\ tp[p].pc = "cascade"
  THEN {TradeRow(t2) : t2 \in CascadeTargets(tp[p].trade,
            CascadeIds(adapter, tp[p].offered \cup tp[p].requested))}
  ELSE {}

\* acceptance p cannot go on: in the loop every card it still has to lock is
\* locked by another call, in the cascade some trade it has to update is,
\* and q is one of the calls that hold such a row
WaitsFor(p, q) ==
  /\ p # q
  /\ AwaitedRows(p) # {}
  /\ IF tp[p].pc = "verify"
     THEN \A r \in AwaitedRows(p) : ~CanLock(p, r)
     ELSE \E r \in AwaitedRows(p) : ~CanLock(p, r)
  /\ \E r \in AwaitedRows(p) : xlock[r] = q

\* C31: the row locks of acceptTradeOffer are taken in one global order, so
\* that concurrent acceptances of trades that share cards or would cancel
\* each other never wait on each other.
AcceptNoDeadlock ==
  \A p \in TradeActors, q \in TradeActors : ~(WaitsFor(p, q) /\ WaitsFor(q, p))

\* the trades that are pending from the start
FirstTrades == {"t1", "t2"}

\* trade a was accepted and moved a card that trade b references
MovedUnder(a, b) ==
  /\ trade_offers[a].present /\ trade_offers[a].status = "accepted"
  /\ LinkedCards(a) \cap LinkedCards(b) # {}

\* C13: once T1 is accepted and has moved card C, no acceptance of another
\* trade T2 that referenced C succeeds.
StaleAcceptStep ==
  \A a \in FirstTrades, b \in FirstTrades :
    (a # b /\ MovedUnder(a, b)) => ~Accepts(b)
StaleAcceptFails == [][StaleAcceptStep]_vars

\* ------------------------------------------------------------------ gifts
GiftFrame == UNCHANGED <<adapter, slock, now>> /\ UNCHANGED outsideGift

\* see Scheduled: the gift services await nothing but the store
GiftScheduled(p) ==
  adapter = "sqlite" => \A q \in GiftProcs \ {p} : gp[q].pc \in {"idle", "done"}

RECURSIVE SumPacks(_)
\* gifts.rows.reduce((sum, g) => sum + g.pack_count, 0)
SumPacks(S) ==
  IF S = {} THEN 0
  ELSE LET g == CHOOSE x \in S : TRUE IN gifts[g].pack_count + SumPacks(S \ {g})

GiftReturn(p, op, g, u, reason) ==
  [gp EXCEPT ![p] = [GiftProcIdle EXCEPT !.op = op, !.pc = "done", !.gift = g,
                                         !.user = u, !.result = reason]]

\* a SELECT without claimed_at IS NULL
ClaimMatchesClaimed(row, u) == row.present /\ row.owner = u
\* WHERE id = ? AND discord_user_id = ? AND claimed_at IS NULL
ClaimMatches(row, u) == row.present /\ row.owner = u /\ ~row.claimed

\* claimGift: SELECT * FROM gifts WHERE id = ? AND discord_user_id = ?
\* AND claimed_at IS NULL FOR UPDATE, then the expiry check
\* new Date(giftRow.expires_at) < new Date()
cgSelect(p, g, u) ==
  /\ GiftScheduled(p)
  /\ gp[p].pc = "idle"
  /\ CanLock(p, GiftRow(g))
  /\ LET row == gifts[g]
     IN IF ~ClaimMatches(row, u)
        THEN gp' = GiftReturn(p, "claimGift", g, u, "notfound") /\ UNCHANGED xlock
        ELSE IF IsExpired(row.expires_at, now)
        THEN gp' = GiftReturn(p, "claimGift", g, u, "expired") /\ UNCHANGED xlock
        ELSE /\ gp' = [gp EXCEPT ![p] = [GiftProcIdle EXCEPT !.op = "claimGift",
                          !.pc = "stamp", !.gift = g, !.user = u, !.todo = {g},
                          !.total = row.pack_count, !.at = now]]
             /\ xlock' = [xlock EXCEPT ![GiftRow(g)] = p]
  /\ UNCHANGED <<pack_balance, gifts, giftStamps>>
  /\ GiftFrame

\* the calendar day of an instant: instants 1 and 2 fall on the same day
DayOf(t) == (t + 1) \div 2

\* expires_at > datetime('now') on a stored expiresAt.toISOString().  The
\* stored text is 'YYYY-MM-DDTHH:MM:SS.sssZ', datetime('now') is
\* 'YYYY-MM-DD HH:MM:SS'.  SQLite compares the two as text, and on the same
\* day 'T' sorts after ' ', whatever the hour; the other stores compare
\* instants.
StoreLater(a, expires_at, t) ==
  IF a = "sqlite" THEN DayOf(expires_at) >= DayOf(t) ELSE expires_at > t

\* the rows claimAllGifts and getPendingGifts select:
\* claimed_at IS NULL AND (expires_at IS NULL OR expires_at > datetime('now'))
Claimable(u) ==
  {g \in Gifts : /\ gifts[g].present /\ gifts[g].owner = u /\ ~gifts[g].claimed
                 /\ (gifts[g].expires_at = Never
                     \/ StoreLater(adapter, gifts[g].expires_at, now))}

\* claimAllGifts: the SELECT of the unclaimed gifts (no FOR UPDATE), the
\* zero-effect return, totalPacks and giftIds
caSelect(p, u) ==
  /\ GiftScheduled(p)
  /\ gp[p].pc = "idle"
  /\ gp' = IF Claimable(u) = {}
           THEN GiftReturn(p, "claimAllGifts", NoGift, u, "zero")
           ELSE [gp EXCEPT ![p] = [GiftProcIdle EXCEPT !.op = "claimAllGifts",
                    !.pc = "stamp", !.user = u, !.todo = Claimable(u),
                    !.total = SumPacks(Claimable(u)), !.at = now]]
  /\ UNCHANGED <<pack_balance, xlock, gifts, giftStamps>>
  /\ GiftFrame

\* UPDATE gifts SET claimed_at = datetime('now') WHERE id = ?  (once in
\* claimGift, once per selected id in claimAllGifts)
giftStamp(p, g) ==
  /\ GiftScheduled(p)
  /\ gp[p].pc = "stamp"
  /\ g \in gp[p].todo
  /\ CanLock(p, GiftRow(g))
  /\ xlock' = [xlock EXCEPT ![GiftRow(g)] = p]
  /\ gp' = [gp EXCEPT ![p].todo = @ \ {g},
                      ![p].ids = IF gifts[g].present THEN @ \cup {g} ELSE @,
                      ![p].pc = IF gp[p].todo = {g} THEN "credit" ELSE "stamp"]
  /\ UNCHANGED <<pack_balance, gifts, giftStamps>>
  /\ GiftFrame

\* UPDATE users SET pack_balance = pack_balance + ? WHERE discord_id = ?
giftCredit(p) ==
  /\ GiftScheduled(p)
  /\ gp[p].pc = "credit"
  /\ CanLock(p, UserRow(gp[p].user))
  /\ xlock' = [xlock EXCEPT ![UserRow(gp[p].user)] = p]
  /\ gp' = [gp EXCEPT ![p].pc = "commit"]
  /\ UNCHANGED <<pack_balance, gifts, giftStamps>>
  /\ GiftFrame

\* SELECT pack_balance, connection.commit(): the stamps and the credit
\* become visible together
giftCommit(p) ==
  /\ GiftScheduled(p)
  /\ gp[p].pc = "commit"
  /\ gifts' = [g \in Gifts |-> IF g \in gp[p].ids
                               THEN [gifts[g] EXCEPT !.claimed = TRUE] ELSE gifts[g]]
  /\ giftStamps' = [g \in Gifts |-> IF g \in gp[p].ids THEN giftStamps[g] + 1
                                    ELSE giftStamps[g]]
  /\ pack_balance' = [pack_balance EXCEPT ![gp[p].user] = @ + gp[p].total]
  /\ xlock' = ReleaseAll(p)
  /\ gp' = [gp EXCEPT ![p].pc = "done", ![p].result = "ok"]
  /\ GiftFrame

\* a statement throws (lock wait timeout, deadlock victim): rollback, release
giftAbort(p) ==
  /\ GiftScheduled(p)
  /\ gp[p].pc \in {"stamp", "credit", "commit"}
  /\ xlock' = ReleaseAll(p)
  /\ gp' = GiftReturn(p, gp[p].op, gp[p].gift, gp[p].user, "error")
  /\ UNCHANGED <<pack_balance, gifts, giftStamps>>
  /\ GiftFrame

GiftTick ==
  /\ now < MaxTime
  /\ now' = now + 1
  /\ UNCHANGED <<adapter, pack_balance, xlock, slock>>
  /\ UNCHANGED varsGift
  /\ UNCHANGED outsideGift

\* two unclaimed gifts, each created by createGiftForUser or createGiftForAll
\* with or without an expiry
GiftInit ==
  /\ StoreInit
  /\ adapter \in Adapters
  /\ pack_balance = [u \in Users |-> 0]
  /\ DebitIdle
  /\ CodeIdle
  /\ TradeIdle
  /\ PackIdle
  /\ TradeInIdle
  /\ RollIdle
  /\ LoginIdle
  /\ gifts \in [Gifts -> [present : {TRUE}, owner : Users, pack_count : 1..MaxPackCount,
                          claimed : {FALSE}, expires_at : {1, Never}]]
  /\ gp = [p \in GiftProcs |-> GiftProcIdle]
  /\ giftStamps = [g \in Gifts |-> 0]

GiftNext ==
  \/ \E p \in GiftProcs, g \in Gifts, u \in Users : cgSelect(p, g, u)
  \/ \E p \in GiftProcs, u \in Users : caSelect(p, u)
  \/ \E p \in GiftProcs, g \in Gifts : giftStamp(p, g)
  \/ \E p \in GiftProcs : giftCredit(p)
  \/ \E p \in GiftProcs : giftCommit(p)
  \/ \E p \in GiftProcs : giftAbort(p)
  \/ GiftTick

SpecGift == GiftInit /\ [][GiftNext]_vars

\* concurrent claimGift calls only
ClaimNext ==
  \/ \E p \in GiftProcs, g \in Gifts, u \in Users : cgSelect(p, g, u)
  \/ \E p \in GiftProcs, g \in Gifts : giftStamp(p, g)
  \/ \E p \in GiftProcs : giftCredit(p)
  \/ \E p \in GiftProcs : giftCommit(p)
  \/ \E p \in GiftProcs : giftAbort(p)
  \/ GiftTick

SpecClaim == GiftInit /\ [][ClaimNext]_vars

ClaimedOf(u) == {g \in Gifts : gifts[g].present /\ gifts[g].owner = u /\ gifts[g].claimed}

MarksClaimed(p, g) ==
  /\ gp[p].pc = "commit" /\ gp'[p].pc = "done"
  /\ g \in gp[p].ids
  /\ gifts'[g].claimed

GiftNotAfterExpiryStep ==
  \A p \in GiftProcs, g \in Gifts :
    MarksClaimed(p, g) => ~IsExpired(gifts[g].expires_at, gp[p].at)

\* C11: no claimGift and no claimAllGifts that reads the gifts at a time
\* after a gift's expires_at marks that gift claimed or credits its
\* pack_count, however the claims interleave with the passage of time.
GiftNotAfterExpiry == [][GiftNotAfterExpiryStep]_vars

\* the gifts of u that are unclaimed and whose expiry, if any, is not before
\* instant t
DueAt(u, t) ==
  {g \in Gifts : /\ gifts[g].present /\ gifts[g].owner = u /\ ~gifts[g].claimed
                 /\ (gifts[g].expires_at = Never \/ gifts[g].expires_at >= t)}

\* the gifts this step marks claimed
NewlyClaimed == {g \in Gifts : ~gifts[g].claimed /\ gifts'[g].claimed}

\* claimAllGifts of call p reads the gifts in this step
ClaimAllReads(p) == gp[p].pc = "idle" /\ gp'[p].op = "claimAllGifts"
\* claimAllGifts of call p commits in this step
ClaimAllCommits(p) ==
  /\ gp[p].op = "claimAllGifts" /\ gp[p].pc = "commit"
  /\ gp'[p].pc = "done" /\ gp'[p].result = "ok"

ClaimAllStep ==
  \A p \in GiftProcs :
    /\ ClaimAllReads(p) =>
         LET u == gp'[p].user
         IN /\ DueAt(u, now + 1) \subseteq gp'[p].todo
            /\ gp'[p].todo \subseteq DueAt(u, now)
            /\ gp'[p].total = SumPacks(gp'[p].todo)
            /\ gp'[p].todo = {} =>
                 /\ gp'[p].result = "zero"
                 /\ gifts' = gifts /\ pack_balance' = pack_balance
    /\ ClaimAllCommits(p) =>
         LET u == gp[p].user
         IN /\ \A g \in NewlyClaimed : gifts[g].owner = u
            /\ gp[p].total = SumPacks(NewlyClaimed)
            /\ pack_balance' = [pack_balance EXCEPT ![u] = @ + SumPacks(NewlyClaimed)]

\* C15: claimAllGifts claims exactly the recipient's gifts that are unclaimed
\* and unexpired when it is called (a gift that expires at that very instant
\* may count either way): it reports the sum of their pack_count, the
\* balance rises by that sum, other users' gifts and expired gifts stay
\* unclaimed; with no such gift it reports 0 and 0 and changes nothing.
ClaimAllExact == [][ClaimAllStep]_vars

\* call p of claimGift commits, or throws, in this step
ClaimCommits(p) ==
  /\ gp[p].op = "claimGift" /\ gp[p].pc = "commit"
  /\ gp'[p].pc = "done" /\ gp'[p].result = "ok"
ClaimFails(p) ==
  /\ gp[p].pc # "done" /\ gp'[p].pc = "done"
  /\ gp'[p].op = "claimGift" /\ gp'[p].result # "ok"

ClaimGiftStep ==
  /\ \A p \in GiftProcs :
       /\ ClaimCommits(p) =>
            LET g == gp[p].gift
            IN /\ gifts[g].present /\ gifts[g].owner = gp[p].user /\ ~gifts[g].claimed
               /\ ~IsExpired(gifts[g].expires_at, gp[p].at)
               /\ gifts'[g].claimed /\ giftStamps'[g] = giftStamps[g] + 1
               /\ \A g2 \in Gifts \ {g} : gifts'[g2] = gifts[g2]
               /\ pack_balance' =
                    [pack_balance EXCEPT ![gp[p].user] = @ + gifts[g].pack_count]
       /\ ClaimFails(p) => UNCHANGED <<gifts, giftStamps, pack_balance>>
  /\ \A g \in Gifts : gifts[g].claimed => gifts'[g].claimed

\* the finished claimGift calls on gift g, and those that succeeded
ClaimCalls(g) ==
  {p \in GiftProcs : gp[p].op = "claimGift" /\ gp[p].pc = "done" /\ gp[p].gift = g}
ClaimOk(g) == {p \in ClaimCalls(g) : gp[p].result = "ok"}

\* of the calls on one gift at most one succeeds; when the calls were all
\* made by its recipient and none met an expiry or a store error, exactly one
OneClaimWins ==
  \A g \in Gifts :
    /\ Cardinality(ClaimOk(g)) <= 1
    /\ ( /\ ClaimCalls(g) # {}
         /\ \A p \in ClaimCalls(g) :
              gp[p].user = gifts[g].owner /\ gp[p].result \in {"ok", "notfound"} )
       => Cardinality(ClaimOk(g)) = 1

PackFrame == UNCHANGED <<adapter, slock, now, eligible>> /\ UNCHANGED outsidePack

\* the positions between connection.beginTransaction() and commit / rollback
PackInTx == {"draw", "insert", "card", "log", "commit"}

\* see Scheduled: between beginTransaction and commit openPack awaits nothing
\* but the store
PackScheduled(p) ==
  adapter = "sqlite" => \A q \in PackProcs \ {p} : pp[q].pc \notin PackInTx

PackReturn(p, reason) ==
  [pp EXCEPT ![p].pc = "done", ![p].result = reason, ![p].cur = NoKey, ![p].ins = {},
             ![p].i = 0, ![p].madeAt = [k \in Keys |-> 0],
             ![p].newSnapshots = [k \in Keys |-> 0]]

\* a route that opens the pack whatever the debit returned
RouteOpensAnyway(decremented) == FALSE
\* if (!decremented) { res.status(400)...; return; }
RouteStops(decremented) == ~decremented

\* POST /packs/open: the packSize check, then decrementPackBalance outside
\* any transaction; 400 when it returns false
pkRoute(p, u, size) ==
  /\ pp[p].pc = "idle"
  /\ CanLock(p, UserRow(u))
  /\ LET changes == DebitMatches(pack_balance[u])
         decremented == RowCount(adapter, FALSE, 0, changes) > 0
     IN /\ pack_balance' = [pack_balance EXCEPT ![u] = @ - changes]
        /\ pp' = [pp EXCEPT ![p] = [PackProcIdle EXCEPT
                     !.op = "route", !.user = u, !.size = size, !.debited = changes,
                     !.pc = IF RouteStops(decremented) THEN "done" ELSE "season",
                     !.result = IF RouteStops(decremented) THEN "nopacks" ELSE "none"]]
  /\ UNCHANGED <<xlock, card_snapshots, snap_at, player_name, opened>>
  /\ PackFrame

\* openPack called by a route that does not debit
pkOpen(p, u, size) ==
  /\ pp[p].pc = "idle"
  /\ pp' = [pp EXCEPT ![p] = [PackProcIdle EXCEPT !.op = "openPack", !.user = u,
                                                   !.size = size, !.pc = "season"]]
  /\ UNCHANGED <<pack_balance, xlock, card_snapshots, snap_at, player_name, opened>>
  /\ PackFrame

\* openPack: getPlayersWithStats(), await getSeasonAndMatchType(), the
\* eligible filter and its throw, getConnection, beginTransaction
pkSeason(p) ==
  /\ PackScheduled(p)
  /\ pp[p].pc = "season"
  /\ pp' = IF eligible = {}
           THEN PackReturn(p, "nopool")
           ELSE [pp EXCEPT ![p].pc = "draw", ![p].names = player_name]
  /\ UNCHANGED <<pack_balance, xlock, card_snapshots, snap_at, player_name, opened>>
  /\ PackFrame

\* getSeasonAndMatchType() rejects (the upstream API is down)
pkSeasonFails(p) ==
  /\ pp[p].pc = "season"
  /\ pp' = PackReturn(p, "error")
  /\ UNCHANGED <<pack_balance, xlock, card_snapshots, snap_at, player_name, opened>>
  /\ PackFrame

\* rows of key k, committed, under any name
RowsFor(k) == card_snapshots[k]["n1"] + card_snapshots[k]["n2"]

\* findOrCreateSnapshot, the lookup for the drawn player:
\* SELECT * FROM card_snapshots WHERE csc_player_id = ? AND season = ?
\*  AND stat_type = ? AND avatar_url = ? AND player_name = ?
pkFind(p, k) ==
  /\ PackScheduled(p)
  /\ pp[p].pc = "draw"
  /\ k \in eligible
  /\ LET n == pp[p].names[k]
         found == card_snapshots[k][n] > 0 \/ <<k, n>> \in pp[p].ins
     IN pp' = [pp EXCEPT ![p].cur = k, ![p].drew = @ \cup {k},
                         ![p].pc = IF found THEN "card" ELSE "insert"]
  /\ UNCHANGED <<pack_balance, xlock, card_snapshots, snap_at, player_name, opened>>
  /\ PackFrame

\* card_snapshots has UNIQUE (csc_player_id, season, stat_type, avatar_url)
SnapshotKeyNotUnique == FALSE
SnapshotKeyUnique == TRUE

\* findOrCreateSnapshot, INSERT INTO card_snapshots: it waits for an
\* uncommitted row of the same key and throws on a duplicate key
pkInsert(p) ==
  /\ PackScheduled(p)
  /\ pp[p].pc = "insert"
  /\ LET k == pp[p].cur
         n == pp[p].names[k]
         duplicate == RowsFor(k) > 0 \/ \E m \in Names : <<k, m>> \in pp[p].ins
     IN IF SnapshotKeyUnique
        THEN /\ CanLock(p, SnapRow(k))
             /\ IF duplicate
                THEN pp' = PackReturn(p, "duplicate") /\ xlock' = ReleaseAll(p)
                ELSE /\ pp' = [pp EXCEPT ![p].ins = @ \cup {<<k, n>>}, ![p].pc = "card",
                                         ![p].madeAt[k] = now]
                     /\ xlock' = [xlock EXCEPT ![SnapRow(k)] = p]
        ELSE /\ pp' = [pp EXCEPT ![p].ins = @ \cup {<<k, n>>}, ![p].pc = "card",
                                 ![p].madeAt[k] = now]
             /\ UNCHANGED xlock
  /\ UNCHANGED <<pack_balance, card_snapshots, snap_at, player_name, opened>>
  /\ PackFrame

\* snapshot.createdAt of the snapshot that findOrCreateSnapshot returned for
\* key k: the row's created_at when found, new Date() when inserted
CreatedAt(p, k) ==
  IF <<k, pp[p].names[k]>> \in pp[p].ins THEN pp[p].madeAt[k]
                                          ELSE snap_at[k][pp[p].names[k]]
\* new Date(snapshot.createdAt).getTime() > Date.now() - 1000; an instant of
\* the clock is one second
IsRecent(p, k, t) == CreatedAt(p, k) > t - 1

\* INSERT INTO owned_cards, cards.push, the newSnapshots test, next round of
\* the loop
pkCard(p) ==
  /\ PackScheduled(p)
  /\ pp[p].pc = "card"
  /\ pp' = [pp EXCEPT ![p].i = @ + 1, ![p].cur = NoKey,
                      ![p].newSnapshots[pp[p].cur] =
                           IF IsRecent(p, pp[p].cur, now) THEN @ + 1 ELSE @,
                      ![p].pc = IF pp[p].i + 1 = pp[p].size THEN "log" ELSE "draw"]
  /\ UNCHANGED <<pack_balance, xlock, card_snapshots, snap_at, player_name, opened>>
  /\ PackFrame

\* INSERT INTO pack_opens
pkLog(p) ==
  /\ PackScheduled(p)
  /\ pp[p].pc = "log"
  /\ pp' = [pp EXCEPT ![p].pc = "commit"]
  /\ UNCHANGED <<pack_balance, xlock, card_snapshots, snap_at, player_name, opened>>
  /\ PackFrame

\* connection.commit(): the new snapshots and the cards appear together
pkCommit(p) ==
  /\ PackScheduled(p)
  /\ pp[p].pc = "commit"
  /\ card_snapshots' = [k \in Keys |-> [n \in Names |->
        card_snapshots[k][n] + IF <<k, n>> \in pp[p].ins THEN 1 ELSE 0]]
  /\ snap_at' = [k \in Keys |-> [n \in Names |->
        IF <<k, n>> \in pp[p].ins THEN pp[p].madeAt[k] ELSE snap_at[k][n]]]
  /\ opened' = [opened EXCEPT ![pp[p].user] = @ + pp[p].size]
  /\ xlock' = ReleaseAll(p)
  /\ pp' = [pp EXCEPT ![p].issued = pp[p].size, ![p].ins = {}, ![p].i = 0,
                      ![p].madeAt = [k \in Keys |-> 0],
                      ![p].pc = IF pp[p].op = "route" THEN "balance" ELSE "done",
                      ![p].result = IF pp[p].op = "route" THEN "none" ELSE "ok"]
  /\ UNCHANGED <<pack_balance, player_name>>
  /\ PackFrame

\* the route: getPackBalance, res.json
pkBalance(p) ==
  /\ pp[p].pc = "balance"
  /\ pp' = [pp EXCEPT ![p].pc = "done", ![p].result = "ok"]
  /\ UNCHANGED <<pack_balance, xlock, card_snapshots, snap_at, player_name, opened>>
  /\ PackFrame

\* a rollback that keeps the cards inserted so far
RollbackKeeps(cards) == cards
\* await connection.rollback(): of the cards inserted so far none is left
AfterRollback(cards) == 0

\* a statement of the transaction throws (lock wait timeout, deadlock victim,
\* lost connection): rollback, release, 500
pkAbort(p) ==
  /\ PackScheduled(p)
  /\ pp[p].pc \in PackInTx
  /\ xlock' = ReleaseAll(p)
  /\ pp' = PackReturn(p, "error")
  /\ opened' = [opened EXCEPT ![pp[p].user] = @ + AfterRollback(pp[p].i)]
  /\ UNCHANGED <<pack_balance, card_snapshots, snap_at, player_name>>
  /\ PackFrame

\* the cached player list is refreshed and a player has a new name
PlayerRenamed(k) ==
  /\ player_name[k] = "n1"
  /\ player_name' = [player_name EXCEPT ![k] = "n2"]
  /\ UNCHANGED <<pack_balance, xlock, card_snapshots, snap_at, opened, pp>>
  /\ PackFrame

\* no snapshot exists yet; the cached list may be empty
PackInit ==
  /\ StoreInit
  /\ adapter \in Adapters
  /\ pack_balance \in [Users -> 0..1]
  /\ DebitIdle
  /\ CodeIdle
  /\ TradeIdle
  /\ GiftIdle
  /\ TradeInIdle
  /\ RollIdle
  /\ LoginIdle
  /\ card_snapshots = [k \in Keys |-> [n \in Names |-> 0]]
  /\ snap_at = [k \in Keys |-> [n \in Names |-> 0]]
  /\ player_name = [k \in Keys |-> "n1"]
  /\ eligible \in SUBSET Keys
  /\ opened = [u \in Users |-> 0]
  /\ pp = [p \in PackProcs |-> PackProcIdle]

PackNext ==
  \/ \E p \in PackProcs, u \in Users, size \in 1..MaxPackSize : pkRoute(p, u, size)
  \/ \E p \in PackProcs, u \in Users, size \in 1..MaxPackSize : pkOpen(p, u, size)
  \/ \E p \in PackProcs : pkSeason(p)
  \/ \E p \in PackProcs : pkSeasonFails(p)
  \/ \E p \in PackProcs, k \in Keys : pkFind(p, k)
  \/ \E p \in PackProcs : pkInsert(p)
  \/ \E p \in PackProcs : pkCard(p)
  \/ \E p \in PackProcs : pkLog(p)
  \/ \E p \in PackProcs : pkCommit(p)
  \/ \E p \in PackProcs : pkBalance(p)
  \/ \E p \in PackProcs : pkAbort(p)

SpecPack == PackInit /\ [][PackNext]_vars

\* the same, with players renamed while packs are opened
PackRenameNext ==
  \/ PackNext
  \/ \E k \in Keys : PlayerRenamed(k)

SpecPackRename == PackInit /\ [][PackRenameNext]_vars

\* a second passes
PackTick ==
  /\ now < MaxTime
  /\ now' = now + 1
  /\ UNCHANGED <<adapter, pack_balance, xlock, slock>>
  /\ UNCHANGED varsPack
  /\ UNCHANGED outsidePack

\* openPack calls for u1 while time passes; every cached player is eligible
FreshInit == PackInit /\ eligible = Keys /\ pack_balance = [u \in Users |-> 0]

FreshNext ==
  \/ \E p \in PackProcs, size \in 1..MaxPackSize : pkOpen(p, "u1", size)
  \/ \E p \in PackProcs : pkSeason(p)
  \/ \E p \in PackProcs, k \in Keys : pkFind(p, k)
  \/ \E p \in PackProcs : pkInsert(p)
  \/ \E p \in PackProcs : pkCard(p)
  \/ \E p \in PackProcs : pkLog(p)
  \/ \E p \in PackProcs : pkCommit(p)
  \/ PackTick

SpecFresh == FreshInit /\ [][FreshNext]_vars

\* the snapshots call p has inserted, each once
CreatedBy(p) ==
  [k \in Keys |-> IF \E n \in Names : <<k, n>> \in pp[p].ins THEN 1 ELSE 0]

NewSnapshotsStep ==
  \A p \in PackProcs :
    (pp[p].pc = "commit" /\ pp'[p].pc # "commit" /\ pp'[p].result # "error") =>
      /\ pp[p].newSnapshots = CreatedBy(p)
      /\ pp'[p].newSnapshots = pp[p].newSnapshots

\* C29: the newSnapshots that openPack returns are exactly the snapshots
\* this call created, each once: none that existed before or that another
\* opening created, none of its own left out or repeated.
NewSnapshotsExact == [][NewSnapshotsStep]_vars

PackDone == \A p \in PackProcs : pp[p].pc = "done"

NoSideEffectingFailure ==
  \A p \in PackProcs :
    /\ (pp[p].op = "route" /\ pp[p].pc = "done" /\ pp[p].result # "ok")
         => pp[p].debited = 0 /\ pp[p].issued = 0
    /\ (eligible = {} /\ pp[p].pc = "done") => pp[p].result # "ok" /\ pp[p].issued = 0

\* call p commits its pack in this step
PackCommits(p) == pp[p].pc = "commit" /\ pp'[p].pc \in {"balance", "done"}

\* owned_cards or card_snapshots changes only in the step that commits a
\* call, and then by the whole pack: size cards and every snapshot the call
\* inserted
WholePackStep ==
  (opened' # opened \/ card_snapshots' # card_snapshots) =>
    \E p \in PackProcs :
      /\ PackCommits(p)
      /\ opened' = [opened EXCEPT ![pp[p].user] = @ + pp[p].size]
      /\ card_snapshots' = [k \in Keys |-> [n \in Names |->
            card_snapshots[k][n] + IF <<k, n>> \in pp[p].ins THEN 1 ELSE 0]]

RECURSIVE IssuedTo(_, _)
\* the cards that the calls in P issued to u
IssuedTo(P, u) ==
  IF P = {} THEN 0
  ELSE LET p == CHOOSE x \in P : TRUE
       IN (IF pp[p].user = u THEN pp[p].issued ELSE 0) + IssuedTo(P \ {p}, u)

\* a call issued its whole pack or nothing, nothing if it failed, and the
\* cards of a user are the packs of the calls that succeeded
WholePacks ==
  /\ \A p \in PackProcs :
       /\ pp[p].issued \in {0, pp[p].size}
       /\ (pp[p].pc = "done" /\ pp[p].result # "ok") => pp[p].issued = 0
       /\ (pp[p].pc = "done" /\ pp[p].result = "ok") => pp[p].issued = pp[p].size
  /\ \A u \in Users : opened[u] = IssuedTo(PackProcs, u)
  /\ \A k \in Keys : RowsFor(k) > 0 =>
       \E p \in PackProcs : pp[p].issued > 0 /\ k \in pp[p].drew

\* C18: openPack(user, size) commits exactly size owned cards of the user
\* together with the snapshots it created, or, when it fails at any draw,
\* none of them.
NoPartialPacks == [][WholePackStep]_vars /\ []WholePacks

\* a call committed a pack of two cards, another call failed after it had
\* drawn a player and left nothing behind
NoPartialPacksWitness ==
  \E p, q \in PackProcs :
    /\ pp[p].pc = "done" /\ pp[p].result = "ok" /\ pp[p].issued = 2
    /\ pp[q].pc = "done" /\ pp[q].result \in {"error", "duplicate"}
    /\ pp[q].drew # {} /\ pp[q].size = 2
    /\ pp[p].user # pp[q].user
    /\ opened[pp[q].user] = 0 /\ opened[pp[p].user] = 2

\* the POST /packs/open requests of u that were answered with a pack
RoutePacks(u) ==
  {p \in PackProcs : pp[p].op = "route" /\ pp[p].user = u /\ pp[p].issued > 0}

\* C14: a POST /packs/open of a user whose balance is 0 fails at the debit,
\* issues no card and leaves the balance 0; a request issues a pack only
\* after its debit took one pack, and of the concurrent requests of a user
\* who started with balance B at most B are answered with a pack.
PackAfterDebit ==
  /\ \A p \in PackProcs :
       /\ (pp[p].op = "route" /\ pp[p].issued > 0) => pp[p].debited = 1
       /\ (pp[p].op = "route" /\ pp[p].pc = "done" /\ initBalance[pp[p].user] = 0)
            => /\ pp[p].result = "nopacks" /\ pp[p].issued = 0
               /\ pack_balance[pp[p].user] = 0
  /\ \A u \in Users : Cardinality(RoutePacks(u)) <= initBalance[u]

\* two requests of a user with one pack: one got the pack, the other the 400
PackAfterDebitWitness ==
  \E p, q \in PackProcs :
    /\ pp[p].op = "route" /\ pp[q].op = "route" /\ pp[p].user = pp[q].user
    /\ initBalance[pp[p].user] = 1
    /\ pp[p].pc = "done" /\ pp[p].result = "ok" /\ pp[p].issued > 0
    /\ pp[q].pc = "done" /\ pp[q].result = "nopacks" /\ pp[q].issued = 0
    /\ pack_balance[pp[p].user] = 0

\* ------------------------------------------------------------------ duplicate trade-in
\* tradeInDuplicates(discordUserId, cardIds, requiredCount): two checks on
\* the arguments, then one transaction that checks every card and deletes
\* every card.

\* owned_cards.card_snapshot_id and owned_cards.rarity of a card, as a pair;
\* neither column is ever updated
CardKind == [k \in Cards |-> IF k = "k1" THEN "X" ELSE "Y"]

\* the cardIds arrays a caller can send
TradeInLists == UNION {[1..n -> Cards] : n \in 1..MaxTradeIn}

Range(f) == {f[x] : x \in DOMAIN f}

\* SELECT COUNT(*) as count FROM owned_cards WHERE discord_user_id = ?
\*   AND card_snapshot_id = ? AND rarity = ?
CountCopies(owner, u, kind) ==
  Cardinality({k \in Cards : owner[k] = u /\ CardKind[k] = kind})

\* a check that lets the only copy go
TooFewCopiesOffByOne(count) == count < 1
\* if (parseInt(countResult.rows[0].count) <= 1) throw
TooFewCopies(count) == count <= 1

TradeInFrame ==
  UNCHANGED <<adapter, pack_balance, slock, now, trade_offers, tp, card0>>
  /\ UNCHANGED outsideTradeIn

\* the positions between connection.beginTransaction() and commit / rollback
TradeInTx == {"card", "count", "delete", "commit"}

\* see Scheduled: inside its transaction tradeInDuplicates awaits nothing but
\* the store
TradeInScheduled(p) ==
  adapter = "sqlite" => \A q \in TradeInProcs \ {p} : ip[q].pc \notin TradeInTx

\* the call returns or throws; its locals are gone, the call and its outcome
\* are kept
TradeInReturn(p, u, ids, deleted, reason) ==
  [ip EXCEPT ![p] = [TradeInProcIdle EXCEPT !.pc = "done", !.user = u,
                                            !.named = Range(ids), !.deleted = deleted,
                                            !.result = reason]]

\* the two checks on the arguments, db.getConnection(), beginTransaction()
tiStart(p, u, ids, requiredCount) ==
  /\ ip[p].pc = "idle"
  /\ ip' = IF Len(ids) # requiredCount
             THEN TradeInReturn(p, u, ids, {}, "count")
           ELSE IF Cardinality(Range(ids)) # Len(ids)
             THEN TradeInReturn(p, u, ids, {}, "repeated")
           ELSE [ip EXCEPT ![p] = [TradeInProcIdle EXCEPT !.pc = "card", !.user = u,
                                                          !.ids = ids, !.i = 1,
                                                          !.required = requiredCount]]
  /\ UNCHANGED <<xlock, card_owner, trade_cards>>
  /\ TradeInFrame

\* first loop: SELECT oc.id, oc.card_snapshot_id, oc.rarity, oc.discord_user_id
\*   FROM owned_cards oc WHERE oc.id = ?, then the two throws
tiCard(p) ==
  /\ TradeInScheduled(p)
  /\ ip[p].pc = "card"
  /\ LET c == ip[p].ids[ip[p].i]
     IN IF card_owner[c] = NoUser
          THEN /\ ip' = TradeInReturn(p, ip[p].user, ip[p].ids, {}, "notfound")
               /\ xlock' = ReleaseAll(p)
        ELSE IF card_owner[c] # ip[p].user
          THEN /\ ip' = TradeInReturn(p, ip[p].user, ip[p].ids, {}, "notyours")
               /\ xlock' = ReleaseAll(p)
        ELSE /\ ip' = [ip EXCEPT ![p].pc = "count"]
             /\ UNCHANGED xlock
  /\ UNCHANGED <<card_owner, trade_cards>>
  /\ TradeInFrame

\* first loop: the COUNT(*) of the card's pair among the caller's cards, then
\* the throw; after the last card the second loop starts
tiCount(p) ==
  /\ TradeInScheduled(p)
  /\ ip[p].pc = "count"
  /\ LET c == ip[p].ids[ip[p].i]
         count == CountCopies(card_owner, ip[p].user, CardKind[c])
     IN IF TooFewCopies(count)
          THEN /\ ip' = TradeInReturn(p, ip[p].user, ip[p].ids, {}, "single")
               /\ xlock' = ReleaseAll(p)
        ELSE /\ ip' = IF ip[p].i < Len(ip[p].ids)
                        THEN [ip EXCEPT ![p].pc = "card", ![p].i = @ + 1]
                        ELSE [ip EXCEPT ![p].pc = "delete", ![p].i = 1]
             /\ UNCHANGED xlock
  /\ UNCHANGED <<card_owner, trade_cards>>
  /\ TradeInFrame

\* second loop: DELETE FROM owned_cards WHERE id = ? AND discord_user_id = ?
tiDelete(p) ==
  /\ TradeInScheduled(p)
  /\ ip[p].pc = "delete"
  /\ LET c == ip[p].ids[ip[p].i]
         matched == IF card_owner[c] = ip[p].user THEN {c} ELSE {}
     IN /\ CanLock(p, CardRow(c))
        /\ xlock' = [xlock EXCEPT ![CardRow(c)] = p]
        /\ ip' = [ip EXCEPT ![p].deleted = @ \cup matched,
                            ![p].i = @ + 1,
                            ![p].pc = IF ip[p].i < Len(ip[p].ids) THEN "delete" ELSE "commit"]
  /\ UNCHANGED <<card_owner, trade_cards>>
  /\ TradeInFrame

\* connection.commit(): the deletions take effect, and with them the
\* ON DELETE CASCADE of trade_offer_cards.owned_card_id
tiCommit(p) ==
  /\ TradeInScheduled(p)
  /\ ip[p].pc = "commit"
  /\ card_owner' = [k \in Cards |-> IF k \in ip[p].deleted THEN NoUser ELSE card_owner[k]]
  /\ trade_cards' = [t \in Trades |->
        [offered |-> trade_cards[t].offered \ ip[p].deleted,
         requested |-> trade_cards[t].requested \ ip[p].deleted]]
  /\ xlock' = ReleaseAll(p)
  /\ ip' = TradeInReturn(p, ip[p].user, ip[p].ids, ip[p].deleted, "ok")
  /\ TradeInFrame

\* a statement fails (connection lost, deadlock victim): catch, rollback, throw
tiAbort(p) ==
  /\ TradeInScheduled(p)
  /\ ip[p].pc \in TradeInTx
  /\ xlock' = ReleaseAll(p)
  /\ ip' = TradeInReturn(p, ip[p].user, ip[p].ids, {}, "error")
  /\ UNCHANGED <<card_owner, trade_cards>>
  /\ TradeInFrame

\* one user holds one copy of X and two or three copies of Y
TradeInInit ==
  /\ adapter \in Adapters
  /\ pack_balance = [u \in Users |-> 0]
  /\ xlock = [r \in Rows |-> NoProc]
  /\ slock = [r \in Rows |-> {}]
  /\ now = 0
  /\ DebitIdle
  /\ CodeIdle
  /\ GiftIdle
  /\ PackIdle
  /\ trade_offers = [t \in Trades |-> NoTrade]
  /\ trade_cards = [t \in Trades |-> [offered |-> {}, requested |-> {}]]
  /\ tp = [p \in TradeProcs |-> TradeProcIdle]
  /\ \E last \in Users :
       card_owner = [k \in Cards |-> IF k = "k4" THEN last ELSE "u1"]
  /\ card0 = card_owner
  /\ ip = [p \in TradeInProcs |-> TradeInProcIdle]
  /\ RollIdle
  /\ LoginIdle

\* the steps of the calls P that callers U make with requiredCount up to N
TradeInStepsBy(P, U, N) ==
  \/ \E p \in P, u \in U, ids \in TradeInLists, n \in 1..N :
       tiStart(p, u, ids, n)
  \/ \E p \in P : tiCard(p)
  \/ \E p \in P : tiCount(p)
  \/ \E p \in P : tiDelete(p)
  \/ \E p \in P : tiCommit(p)
  \/ \E p \in P : tiAbort(p)

TradeInNext == TradeInStepsBy(TradeInProcs, Users, MaxTradeIn)

SpecTradeIn == TradeInInit /\ [][TradeInNext]_vars

\* the rule of the trade-in holds for card c and caller u as the cards stood
\* before any trade-in
MayTradeIn(u, c) ==
  card0[c] = u /\ CountCopies(card0, u, CardKind[c]) > 1

\* C9: a trade-in succeeds only if every named card belonged to the caller and
\* the caller held more than one copy of that card's (snapshot, rarity) pair,
\* card by card; a call that is alone and names only such cards succeeds
\* unless the store fails; a call that fails deletes no card, and no card
\* disappears except by a call that succeeded.
TradeInRule ==
  /\ \A p \in TradeInProcs : ip[p].pc = "done" =>
       /\ ip[p].result = "ok" => \A c \in ip[p].named : MayTradeIn(ip[p].user, c)
       /\ ip[p].result # "ok" => ip[p].deleted = {}
       /\ (ip[p].result \in {"notfound", "notyours", "single"}
           /\ \A q \in TradeInProcs \ {p} : ip[q].pc = "idle")
            => \E c \in ip[p].named : ~MayTradeIn(ip[p].user, c)
  /\ \A c \in Cards :
       \/ card_owner[c] = card0[c]
       \/ /\ card_owner[c] = NoUser
          /\ \E p \in TradeInProcs : ip[p].result = "ok" /\ c \in ip[p].deleted

\* the user who held one copy of X and three copies of Y traded in two copies
\* of Y and keeps one, and was refused a trade-in that named X
TradeInRuleWitness ==
  /\ CountCopies(card0, "u1", "Y") = 3
  /\ CountCopies(card_owner, "u1", "Y") = 1
  /\ CountCopies(card_owner, "u1", "X") = 1
  /\ \E p, q \in TradeInProcs :
       /\ ip[p].result = "ok" /\ ip[p].user = "u1" /\ Cardinality(ip[p].deleted) = 2
       /\ ip[q].result = "single" /\ ip[q].user = "u1" /\ "k1" \in ip[q].named

TradeInSucceeds(p) == ip[p].pc = "commit" /\ ip'[p].pc = "done" /\ ip'[p].result = "ok"

\* a trade-in that succeeds deletes every named row and adds one pack to the
\* caller's balance in the step that commits it
TradeInCreditStep ==
  \A p \in TradeInProcs : TradeInSucceeds(p) =>
    /\ \A c \in ip'[p].named : card_owner'[c] = NoUser
    /\ pack_balance'[ip[p].user] = pack_balance[ip[p].user] + 1

\* C10: on a successful duplicate trade-in all named owned-card rows are
\* deleted and the caller's pack balance grows by exactly one, in the same
\* transaction.
TradeInCredits == [][TradeInCreditStep]_vars

\* ------------------------------------------------------------------ every credit and debit together
\* u1 has a code to redeem and a gift to claim, neither with an expiry
LedgerInit ==
  /\ StoreInit
  /\ adapter \in Adapters
  /\ \E b \in 0..1 : pack_balance = [u \in Users |-> IF u = "u1" THEN b ELSE 0]
  /\ DebitIdle
  /\ TradeIdle
  /\ PackIdle
  /\ TradeInIdle
  /\ RollIdle
  /\ LoginIdle
  /\ \E n \in 1..MaxPackCount :
       pack_codes = [c \in Codes |-> [present |-> c = "c1", pack_count |-> n,
                                      redeemed_by |-> NoUser, expires_at |-> Never]]
  /\ rp = [p \in RedeemProcs |-> [pc |-> "idle", code |-> NoCode, user |-> NoUser,
                                   packCount |-> 0, result |-> "none"]]
  /\ codeCredited = [c \in Codes |-> 0]
  /\ codeInit = pack_codes
  /\ \E n \in 1..MaxPackCount :
       gifts = [g \in Gifts |-> [present |-> g = "g1", owner |-> "u1", pack_count |-> n,
                                 claimed |-> FALSE, expires_at |-> Never]]
  /\ gp = [p \in GiftProcs |-> GiftProcIdle]
  /\ giftStamps = [g \in Gifts |-> 0]

\* the calls of u1: debits and addPacks at any moment, one redemption, two
\* gift claims
LedgerNext ==
  \/ decrementPackBalance("u1")
  \/ \E count \in 1..MaxPackCount : addPacks("u1", count)
  \/ \E c \in Codes : redeemSelect("r1", c, "u1")
  \/ redeemCredit("r1")
  \/ redeemMark("r1")
  \/ redeemCommit("r1")
  \/ \E p \in GiftProcs, g \in Gifts : cgSelect(p, g, "u1")
  \/ \E p \in GiftProcs : caSelect(p, "u1")
  \/ \E p \in GiftProcs, g \in Gifts : giftStamp(p, g)
  \/ \E p \in GiftProcs : giftCredit(p)
  \/ \E p \in GiftProcs : giftCommit(p)
  \/ \E p \in GiftProcs : giftAbort(p)

SpecLedger == LedgerInit /\ [][LedgerNext]_vars

RECURSIVE RedeemPayout(_, _)
\* packsAdded of the redemptions in P that succeeded for u
RedeemPayout(P, u) ==
  IF P = {} THEN 0
  ELSE LET p == CHOOSE x \in P : TRUE
       IN (IF rp[p].result = "ok" /\ rp[p].user = u THEN rp[p].packCount ELSE 0)
          + RedeemPayout(P \ {p}, u)

RECURSIVE GiftPayout(_, _)
\* packCount / totalPacks of the gift claims in P that succeeded for u
GiftPayout(P, u) ==
  IF P = {} THEN 0
  ELSE LET p == CHOOSE x \in P : TRUE
       IN (IF gp[p].result = "ok" /\ gp[p].user = u THEN gp[p].total ELSE 0)
          + GiftPayout(P \ {p}, u)

\* C17: the balance of every user is its initial balance plus the payouts of
\* the addPacks, redeemPackCode, claimGift and claimAllGifts calls that
\* reported success minus the number of decrementPackBalance calls that
\* returned true, under any interleaving.
NoLostUpdate ==
  \A u \in Users :
    pack_balance[u] = initBalance[u] + addedPacks[u] + RedeemPayout(RedeemProcs, u)
                      + GiftPayout(GiftProcs, u) - debitOk[u]

\* ------------------------------------------------------------------ offers, acceptances and trade-ins together
\* t1 (k1 of u1 for k2 of u2) is pending, DB_TYPE is unset; u1 also holds k4,
\* a second copy of the kind of k3
OfferInit ==
  /\ StoreInit
  /\ adapter = "mysql"
  /\ pack_balance = [u \in Users |-> 0]
  /\ DebitIdle
  /\ CodeIdle
  /\ GiftIdle
  /\ PackIdle
  /\ TradeInIdle
  /\ RollIdle
  /\ LoginIdle
  /\ card_owner = [CardOwner0 EXCEPT !["k4"] = "u1"]
  /\ trade_offers = [t \in Trades |->
       IF t = "t1" THEN [present |-> TRUE, from |-> "u1", to |-> "u2", status |-> "pending"]
       ELSE [present |-> FALSE, from |-> NoUser, to |-> NoUser, status |-> "pending"]]
  /\ trade_cards = [t \in Trades |->
       IF t = "t1" THEN [offered |-> {"k1"}, requested |-> {"k2"}]
       ELSE [offered |-> {}, requested |-> {}]]
  /\ tp = [p \in TradeProcs |-> TradeProcIdle]

\* one proposal, one acceptance and one trade-in of a single card by u1
OfferNext ==
  \/ AcceptSteps({"x1"})
  \/ CreateSteps(TradeCreators)
  \/ TradeInStepsBy({"i1"}, {"u1"}, 1)

SpecOffer == OfferInit /\ [][OfferNext]_vars

\* C12: every trade with status 'pending' has all its offered cards owned by
\* from_user_id and all its requested cards owned by to_user_id, under any
\* interleaving of createTradeOffer, acceptTradeOffer and tradeInDuplicates.
PendingOwnership ==
  \A t \in Trades :
    (trade_offers[t].present /\ trade_offers[t].status = "pending") =>
      /\ \A k \in trade_cards[t].offered : card_owner[k] = trade_offers[t].from
      /\ \A k \in trade_cards[t].requested : card_owner[k] = trade_offers[t].to

\* ------------------------------------------------------------------ argument checks
\* one proposal and one trade-in by u1, with any arguments
ValidateNext ==
  \/ CreateSteps(TradeCreators)
  \/ TradeInStepsBy({"i1"}, {"u1"}, MaxTradeIn)

SpecValidate == OfferInit /\ [][ValidateNext]_vars

\* the rows and the row locks of the store
store == <<pack_balance, card_owner, trade_offers, trade_cards, xlock, slock>>

\* a proposal to oneself or without cards
BadProposal(call) ==
  call.peer = call.user \/ call.offered \cup call.requested = {}

ValidationStep ==
  /\ \A p \in TradeCreators :
       (tp[p].pc = "idle" /\ tp'[p].op = "create" /\ BadProposal(tp'[p])) =>
         /\ tp'[p].pc = "done" /\ tp'[p].result \in {"empty", "self"}
         /\ UNCHANGED store
  /\ \A p \in TradeInProcs :
       (ip[p].pc = "idle" /\ ip'[p].pc = "done") =>
         /\ ip'[p].result \in {"count", "repeated"}
         /\ UNCHANGED store

\* a call that has begun its transaction passed the argument checks
ValidatedInFlight ==
  /\ \A p \in TradeCreators :
       (tp[p].op = "create" /\ tp[p].pc \notin {"idle", "done"}) => ~BadProposal(tp[p])
  /\ \A p \in TradeInProcs :
       ip[p].pc \notin {"idle", "done"} =>
         /\ Len(ip[p].ids) = ip[p].required
         /\ Cardinality(Range(ip[p].ids)) = Len(ip[p].ids)
  /\ \A p \in TradeInProcs :
       (ip[p].pc = "done" /\ ip[p].result \notin {"count", "repeated"}) =>
         Cardinality(ip[p].named) \in 1..MaxTradeIn

\* C25: a proposal to oneself or with both id lists empty, and a trade-in
\* with the wrong number of cards or a repeated card id, are refused before a
\* transaction is opened and before any row is read or written.
ValidationFirst == [][ValidationStep]_vars /\ []ValidatedInFlight

\* a proposal to oneself and a trade-in naming one card twice were both
\* refused, with the store as it started
ValidationFirstWitness ==
  /\ tp["cr"].op = "create" /\ tp["cr"].result = "self"
  /\ ip["i1"].result = "repeated"
  /\ card_owner = [CardOwner0 EXCEPT !["k4"] = "u1"]
  /\ \A t \in Trades : trade_offers[t].present <=> t = "t1"

\* ------------------------------------------------------------------ proposals
\* the party an id of proposal p has to be with
Holder(p, k) == IF k \in tp[p].offered THEN tp[p].user ELSE tp[p].peer

\* call p of createTradeOffer commits, or throws, in this step
CreateCommits(p) ==
  /\ tp[p].op = "create" /\ tp[p].pc = "commit"
  /\ tp'[p].pc = "done" /\ tp'[p].result = "ok"
CreateFails(p) ==
  /\ tp[p].op = "create" /\ tp[p].pc # "done"
  /\ tp'[p].pc = "done" /\ tp'[p].result # "ok"

CreateStep ==
  \A p \in TradeCreators :
    /\ CreateCommits(p) =>
         LET t == tp[p].trade
         IN /\ ~trade_offers[t].present
            /\ trade_offers'[t] = [present |-> TRUE, from |-> tp[p].user,
                                    to |-> tp[p].peer, status |-> "pending"]
            /\ trade_cards'[t] = [offered |-> tp[p].offered,
                                   requested |-> tp[p].requested]
            /\ \A t2 \in Trades \ {t} :
                 trade_offers'[t2] = trade_offers[t2] /\ trade_cards'[t2] = trade_cards[t2]
    /\ CreateFails(p) => UNCHANGED <<trade_offers, trade_cards>>
    /\ (tp[p].op = "create" /\ tp[p].pc = "verify" /\ tp'[p] # tp[p]) =>
         \E k \in tp[p].todo :
           /\ CreateTurn(p, k)
           /\ tp'[p].result = "notowner" <=> card_owner[k] # Holder(p, k)
           /\ tp'[p].result # "notowner" => tp'[p].pc \in {"verify", "link"}

\* rows of a trade exist only once a createTradeOffer for it has committed
NoHalfProposal ==
  \A t \in Trades \ {"t1"} :
    \/ ~trade_offers[t].present /\ trade_cards[t] = [offered |-> {}, requested |-> {}]
    \/ /\ trade_offers[t].present
       /\ \E p \in TradeCreators : tp[p].trade = t /\ tp[p].result = "ok"

\* C26: createTradeOffer persists one 'pending' trade row and one linkage
\* row per supplied id, tagged offered or requested, when every id is with
\* the party it has to be with; when an id is missing or with someone else
\* it fails and persists neither a trade row nor a linkage row.
ProposalAllOrNothing == [][CreateStep]_vars /\ []NoHalfProposal

\* a proposal of one card for another was persisted with both linkage rows
ProposalAllOrNothingWitness ==
  /\ trade_offers["t3"].present /\ trade_offers["t3"].status = "pending"
  /\ Cardinality(trade_cards["t3"].offered) = 1
  /\ Cardinality(trade_cards["t3"].requested) = 1
  /\ tp["cr"].result = "ok"

\* ------------------------------------------------------------------ rarity roll, checked
\* any table with a positive total and any draw in range
RollInit ==
  /\ StoreInit
  /\ adapter = "mysql"
  /\ pack_balance = [u \in Users |-> 0]
  /\ DebitIdle
  /\ CodeIdle
  /\ TradeIdle
  /\ GiftIdle
  /\ PackIdle
  /\ TradeInIdle
  /\ LoginIdle
  /\ \E weights \in WeightTables : \E random \in Draws(weights) :
       roll = [pc |-> "idle", weights |-> weights, random |-> random,
               rarity |-> "none", fallback |-> FALSE]

rollRarity ==
  /\ roll.pc = "idle"
  /\ LET out == RollFrom(Halves(roll.weights), 1, roll.random)
     IN roll' = [roll EXCEPT !.pc = "done", !.rarity = out.rarity,
                             !.fallback = out.fallback]
  /\ UNCHANGED outsideRoll

RollNext == rollRarity

SpecRoll == RollInit /\ [][RollNext]_vars

Proposed == [offered |-> {"k3"}, requested |-> {"k2"}]

\* u1 holds k3 and k4, two copies of one (snapshot, rarity) pair, and k1
DestroyInit ==
  /\ StoreInit
  /\ adapter \in Adapters
  /\ pack_balance = [u \in Users |-> 0]
  /\ DebitIdle
  /\ CodeIdle
  /\ GiftIdle
  /\ PackIdle
  /\ TradeInIdle
  /\ RollIdle
  /\ LoginIdle
  /\ card_owner = [CardOwner0 EXCEPT !["k4"] = "u1"]
  /\ trade_offers = [t \in Trades |->
       IF t = "t1" THEN [present |-> TRUE, from |-> "u1", to |-> "u2", status |-> "pending"]
       ELSE [present |-> FALSE, from |-> NoUser, to |-> NoUser, status |-> "pending"]]
  /\ trade_cards = [t \in Trades |-> IF t = "t1" THEN Proposed
                                     ELSE [offered |-> {}, requested |-> {}]]
  /\ tp = [p \in TradeProcs |-> TradeProcIdle]

\* acceptances by either user and trade-ins of one card by u1
DestroyNext ==
  \/ AcceptSteps({"x1", "x2"})
  \/ TradeInStepsBy({"i1"}, {"u1"}, 1)

SpecDestroy == DestroyInit /\ [][DestroyNext]_vars

FixedCardsStep ==
  \A p \in TradeActors : (AcceptCommits(p) /\ tp[p].trade = "t1") =>
    /\ \A k \in Proposed.offered \cup Proposed.requested : card_owner[k] # NoUser
    /\ \A k \in Proposed.offered : card_owner'[k] = "u2"
    /\ \A k \in Proposed.requested : card_owner'[k] = "u1"

\* C32: the card sets of a trade are those recorded when it was proposed: an
\* acceptance moves exactly those cards, and when a trade-in has destroyed one
\* of them the acceptance fails and no card moves, so that no trade is carried
\* out on one side only.
FixedCards ==
  /\ [][FixedCardsStep]_vars
  /\ [](card_owner["k2"] = "u1" => card_owner["k3"] = "u2")

\* ---------------------------------------------------------------------------
\* what a trade-in leaves and takes
\* ---------------------------------------------------------------------------

KeepsOneCopyStep ==
  \A p \in TradeInProcs : TradeInSucceeds(p) =>
    \A c \in ip'[p].deleted :
      CountCopies(card_owner', ip[p].user, CardKind[c]) >= 1

\* C33: after a successful tradeInDuplicates the caller still owns at least
\* one copy of every (snapshot, rarity) pair among the cards traded in.
KeepsOneCopy == [][KeepsOneCopyStep]_vars

ExactDeletionStep ==
  \A p \in TradeInProcs : TradeInSucceeds(p) =>
    /\ Cardinality(ip[p].deleted) = ip[p].required
    /\ \A c \in ip[p].deleted : card_owner[c] = ip[p].user

\* C34: a tradeInDuplicates call that succeeds has deleted exactly
\* requiredCount cards, each owned by the caller when it was deleted, and two
\* trade-ins that name the same card never both succeed.
ExactDeletion ==
  /\ [][ExactDeletionStep]_vars
  /\ [](\A p \in TradeInProcs : \A q \in TradeInProcs \ {p} :
          (ip[p].result = "ok" /\ ip[q].result = "ok")
            => ip[p].named \cap ip[q].named = {})

\* ---------------------------------------------------------------------------
\* login: findOrCreateUser and the gifts it grants
\* ---------------------------------------------------------------------------

\* the users row of u1 exists, with any balance and with or without a daily
\* gift of the first instant; u2 has never logged in
LoginInit ==
  /\ StoreInit
  /\ adapter \in Adapters
  /\ \E b \in 0..MaxBalance : pack_balance = [u \in Users |-> IF u = "u1" THEN b ELSE 0]
  /\ DebitIdle
  /\ CodeIdle
  /\ TradeIdle
  /\ GiftIdle
  /\ PackIdle
  /\ TradeInIdle
  /\ RollIdle
  /\ user_rows = [u \in Users |-> [present |-> u = "u1", username |-> "n1"]]
  /\ \E had \in BOOLEAN :
       login_gifts = [u \in Users |->
          IF u = "u1" /\ had THEN <<[name |-> "Daily Login Bonus", created_at |-> 0]>>
          ELSE <<>>]
  /\ lp = [p \in LoginProcs |-> LoginProcIdle]

LoginFrame ==
  /\ UNCHANGED <<adapter, xlock, slock>>
  /\ UNCHANGED outsideLogin

\* the call is over: it returned the user, or it threw
LoginReturn(p, reason) == [lp EXCEPT ![p].pc = "done", ![p].result = reason]

\* connections of the pool that calls hold
Leased == {p \in LoginProcs : lp[p].connection = "held"}

\* const connection = await db.getConnection(): waits for a free connection
lgConnect(p, u, username) ==
  /\ lp[p].pc = "idle"
  /\ Cardinality(Leased) < connectionLimit
  /\ lp' = [lp EXCEPT ![p].pc = "select", ![p].user = u, ![p].username = username,
                      ![p].connection = "held"]
  /\ UNCHANGED <<pack_balance, now, user_rows, login_gifts>>
  /\ LoginFrame

\* SELECT * FROM users WHERE discord_id = ?; existing.rows.length > 0
lgSelect(p) ==
  /\ lp[p].pc = "select"
  /\ lp' = [lp EXCEPT ![p].pc = IF user_rows[lp[p].user].present
                                THEN "update" ELSE "insert"]
  /\ UNCHANGED <<pack_balance, now, user_rows, login_gifts>>
  /\ LoginFrame

\* connection.release()
Release(row) == [row EXCEPT !.connection = "released", !.releases = @ + 1]

\* UPDATE users SET username = ?, avatar = ? WHERE discord_id = ?; release
lgUpdate(p) ==
  /\ lp[p].pc = "update"
  /\ CanLock(p, UserRow(lp[p].user))
  /\ user_rows' = [user_rows EXCEPT ![lp[p].user].username =
                     IF user_rows[lp[p].user].present THEN lp[p].username ELSE @]
  /\ lp' = [lp EXCEPT ![p] = [Release(lp[p]) EXCEPT !.pc = "last"]]
  /\ UNCHANGED <<pack_balance, now, login_gifts>>
  /\ LoginFrame

\* an INSERT that replaces the row it finds
PrimaryKeyConflictNever(u) == FALSE
\* discord_id ... PRIMARY KEY: a second row for the same user is refused
PrimaryKeyConflict(u) == user_rows[u].present

\* INSERT INTO users (discord_id, username, avatar, pack_balance)
\*   VALUES (?, ?, ?, ?); release. When the INSERT throws, the finally block
\* is empty and the call leaves with its connection
lgInsert(p) ==
  /\ lp[p].pc = "insert"
  /\ LET u == lp[p].user
     IN IF PrimaryKeyConflict(u)
          THEN /\ lp' = LoginReturn(p, "error")
               /\ UNCHANGED <<pack_balance, user_rows>>
          ELSE /\ user_rows' = [user_rows EXCEPT ![u] =
                                  [present |-> TRUE, username |-> lp[p].username]]
               /\ pack_balance' = [pack_balance EXCEPT ![u] = initialPackBalance]
               /\ lp' = [lp EXCEPT ![p] = [Release(lp[p]) EXCEPT !.pc = "early",
                                                                 !.created = TRUE]]
  /\ UNCHANGED <<now, login_gifts>>
  /\ LoginFrame

GiftsNamed(u, name) == {i \in DOMAIN login_gifts[u] : login_gifts[u][i].name = name}

\* createGiftForUser: INSERT INTO gifts (...), created_at by the store
GiftInsert(u, name) ==
  [login_gifts EXCEPT ![u] = Append(@, [name |-> name, created_at |-> now])]

\* grantEarlyArrivalGiftIfEligible: now >= cutoffDate returns; SELECT id FROM
\* gifts WHERE discord_user_id = ? AND name = 'Early Arrival'
lgEarly(p) ==
  /\ lp[p].pc = "early"
  /\ lp' = IF now >= cutoffDate \/ GiftsNamed(lp[p].user, "Early Arrival") # {}
             THEN LoginReturn(p, "ok")
           ELSE [lp EXCEPT ![p].pc = "earlyGift"]
  /\ UNCHANGED <<pack_balance, now, user_rows, login_gifts>>
  /\ LoginFrame

\* createGiftForUser(discordUserId, 'Early Arrival', 50)
lgEarlyGift(p) ==
  /\ lp[p].pc = "earlyGift"
  /\ login_gifts' = GiftInsert(lp[p].user, "Early Arrival")
  /\ lp' = [LoginReturn(p, "ok") EXCEPT ![p].granted = @ + 1]
  /\ UNCHANGED <<pack_balance, now, user_rows>>
  /\ LoginFrame

\* the created_at that ORDER BY created_at DESC LIMIT 1 returns
LastOf(u, name) ==
  IF GiftsNamed(u, name) = {} THEN Never
  ELSE CHOOSE t \in {login_gifts[u][i].created_at : i \in GiftsNamed(u, name)} :
         \A i \in GiftsNamed(u, name) : login_gifts[u][i].created_at <= t

\* getLastDailyGiftDate
lgLast(p) ==
  /\ lp[p].pc = "last"
  /\ lp' = [lp EXCEPT ![p].pc = "grant",
                      ![p].lastGift = LastOf(lp[p].user, "Daily Login Bonus")]
  /\ UNCHANGED <<pack_balance, now, user_rows, login_gifts>>
  /\ LoginFrame

\* lastGift is of the UTC day that new Date() is in
SameUTCDay(lastGift, t) == lastGift # Never /\ UTCDate(lastGift) = UTCDate(t)

\* grantDailyGiftIfNeeded after the read: return false, or
\* createGiftForUser(discordUserId, 'Daily Login Bonus', 3)
lgGrant(p) ==
  /\ lp[p].pc = "grant"
  /\ IF SameUTCDay(lp[p].lastGift, now)
       THEN /\ lp' = LoginReturn(p, "ok")
            /\ UNCHANGED login_gifts
       ELSE /\ login_gifts' = GiftInsert(lp[p].user, "Daily Login Bonus")
            /\ lp' = [LoginReturn(p, "ok") EXCEPT ![p].granted = @ + 1]
  /\ UNCHANGED <<pack_balance, now, user_rows>>
  /\ LoginFrame

\* a statement throws (connection lost, timeout): nothing is caught, the empty
\* finally block runs and the error reaches the route
lgAbort(p) ==
  /\ lp[p].pc \in {"select", "update", "insert", "early", "earlyGift", "last", "grant"}
  /\ lp' = LoginReturn(p, "error")
  /\ UNCHANGED <<pack_balance, now, user_rows, login_gifts>>
  /\ LoginFrame

\* time passes
LoginTick ==
  /\ now < MaxTime
  /\ now' = now + 1
  /\ UNCHANGED <<pack_balance, user_rows, login_gifts, lp>>
  /\ LoginFrame

LoginNext ==
  \/ \E p \in LoginProcs, u \in Users, username \in Names : lgConnect(p, u, username)
  \/ \E p \in LoginProcs : lgSelect(p)
  \/ \E p \in LoginProcs : lgUpdate(p)
  \/ \E p \in LoginProcs : lgInsert(p)
  \/ \E p \in LoginProcs : lgEarly(p)
  \/ \E p \in LoginProcs : lgEarlyGift(p)
  \/ \E p \in LoginProcs : lgLast(p)
  \/ \E p \in LoginProcs : lgGrant(p)
  \/ \E p \in LoginProcs : lgAbort(p)
  \/ LoginTick

SpecLogin == LoginInit /\ [][LoginNext]_vars

\* C35: a connection obtained with getConnection is released exactly once on
\* every path, also when a query throws, so that failed calls take nothing
\* from the pool.
ConnectionReleased ==
  \A p \in LoginProcs :
    /\ lp[p].releases <= 1
    /\ lp[p].pc = "done" => (lp[p].connection = "released" /\ lp[p].releases = 1)

\* C36: a user has at most one 'Daily Login Bonus' gift per UTC calendar day,
\* also when the user's logins run concurrently.
DailyGiftOnce ==
  \A u \in Users : \A i \in GiftsNamed(u, "Daily Login Bonus") :
    \A j \in GiftsNamed(u, "Daily Login Bonus") \ {i} :
      UTCDate(login_gifts[u][i].created_at) # UTCDate(login_gifts[u][j].created_at)

Created(u) == {p \in LoginProcs : lp[p].created /\ lp[p].user = u}

LoginBalanceStep ==
  \A u \in Users :
    /\ user_rows[u].present =>
         /\ pack_balance'[u] = pack_balance[u]
         /\ user_rows'[u].present
         /\ Len(login_gifts'[u]) <= Len(login_gifts[u]) + 1
    /\ (~user_rows[u].present /\ user_rows'[u].present) =>
         pack_balance'[u] = initialPackBalance

\* C37: a login never changes the balance of a user who exists (it may change
\* the username and add at most one gift row), and of any number of first
\* logins of one user exactly one creates the row, with balance 10.
LoginKeepsBalance ==
  /\ [][LoginBalanceStep]_vars
  /\ [](\A u \in Users :
          /\ Cardinality(Created(u)) <= 1
          /\ (Created(u) # {} \/ \E p \in LoginProcs :
                                   lp[p].user = u /\ lp[p].result = "ok")
               => user_rows[u].present)
  /\ [](\A p \in LoginProcs : lp[p].granted <= 1)
  /\ [](Created("u1") = {})

\* two first logins of u2 ran together: one created the row with ten packs,
\* the other one failed, and a login of nobody else changed a balance
LoginKeepsBalanceWitness ==
  /\ Created("u2") = {"l1"}
  /\ pack_balance["u2"] = initialPackBalance
  /\ lp["l2"].user = "u2" /\ lp["l2"].pc = "done" /\ lp["l2"].result = "error"
  /\ lp["l2"].releases = 0 /\ lp["l2"].connection = "held"

\* ---------------------------------------------------------------------------
\* resolving a key that has a template
\* ---------------------------------------------------------------------------

\* no other opening is under way
Sequential(p) == \A q \in PackProcs \ {p} : pp[q].pc \in {"idle", "done"}

\* openPack calls for u1, one after the other, while time passes and players
\* change their names
ResolveNext ==
  \/ \E p \in PackProcs, size \in 1..MaxPackSize : Sequential(p) /\ pkOpen(p, "u1", size)
  \/ \E p \in PackProcs : pkSeason(p)
  \/ \E p \in PackProcs, k \in Keys : pkFind(p, k)
  \/ \E p \in PackProcs : pkInsert(p)
  \/ \E p \in PackProcs : pkCard(p)
  \/ \E p \in PackProcs : pkLog(p)
  \/ \E p \in PackProcs : pkCommit(p)
  \/ \E k \in Keys : PlayerRenamed(k)
  \/ PackTick

SpecResolve == FreshInit /\ [][ResolveNext]_vars

ResolveStep ==
  \A p \in PackProcs :
    pp[p].pc \in {"draw", "insert"} =>
      /\ (pp'[p].pc = "insert" /\ pp[p].pc = "draw") => RowsFor(pp'[p].cur) = 0
      /\ ~(pp'[p].pc = "done" /\ pp'[p].result = "duplicate")

\* C38: resolving a key that already has a card_snapshots row never fails and
\* never inserts, in sequential calls, also when the player's name differs
\* from the one stored.
ResolveExisting == [][ResolveStep]_vars

\* ---------------------------------------------------------------------------
\* the three reads of a gift's expiry
\* ---------------------------------------------------------------------------

ClaimAgreeStep ==
  \A p \in GiftProcs :
    (gp[p].pc = "idle" /\ gp'[p].op = "claimGift") =>
      /\ gp'[p].pc = "stamp" => gp'[p].gift \in Claimable(gp'[p].user)
      /\ gp'[p].result = "expired" => gp'[p].gift \notin Claimable(gp'[p].user)

\* C39: at any instant, the instant of expires_at included, claimGift accepts
\* an unclaimed gift of the user exactly when claimAllGifts would include it,
\* and getPendingGifts lists exactly those gifts.
ClaimAgreement == [][ClaimAgreeStep]_vars


====
